---- MODULE Spec2Model ----
(***************************************************************************)
(* Data-access core of the creative video library: the multi-table write   *)
(* coordinator (saveAllAction), the per-table admin actions and the        *)
(* faceted listing query (Home).                                           *)
(*                                                                         *)
(* Text is a sequence of one-character strings, so that trim() is          *)
(* computed, not assumed.  SQL NULL is the one-element sequence Null,      *)
(* whose element is no character a form can carry.                         *)
(***************************************************************************)
EXTENDS Integers, Sequences, FiniteSets, TLC

(* ------------------------------ bounds --------------------------------- *)

\* write requests (server actions that reach the storage layer) per behaviour
MaxWrites == 2
\* storage rejections the backend may inject (network / backend errors)
MaxFaults == 1
\* Entities in the databases the listing is run against
MaxVideos == 3
\* Rows in the samples the filter options are computed from
MaxSample == 2
\* Elements of the lists normalizeBullets is applied to
MaxItems == 2
\* Notes of the Entity the detail page is read for
MaxNotes == 2

(* ------------------------------- text ---------------------------------- *)

Null == <<"<null>">>

Whitespace == {" ", "\n", "\t"}

RECURSIVE TrimStart(_)
TrimStart(s) ==
  IF s = <<>> THEN <<>>
  ELSE IF Head(s) \in Whitespace THEN TrimStart(Tail(s)) ELSE s

RECURSIVE TrimEnd(_)
TrimEnd(s) ==
  IF s = <<>> THEN <<>>
  ELSE IF s[Len(s)] \in Whitespace THEN TrimEnd(SubSeq(s, 1, Len(s) - 1)) ELSE s

\* String.prototype.trim
Trim(s) == TrimEnd(TrimStart(s))

OrNull_KeepsEmpty(s) == s

\* `x.length ? x : null`
OrNull(s) == IF Len(s) > 0 THEN s ELSE Null

\* the texts the forms of this model carry
TxtEmpty == <<>>
TxtBlank == <<" ">>
TxtA == <<"A">>
TxtB == <<"B">>
TxtLowerA == <<"a">>
TxtPaddedA == <<" ", "A", " ">>
TxtOne == <<"1">>

(* ------------------------- extractYouTubeId ---------------------------- *)

IdLen == 11

Lower == {"a","b","c","d","e","f","g","h","i","j","k","l","m",
          "n","o","p","q","r","s","t","u","v","w","x","y","z"}
Upper == {"A","B","C","D","E","F","G","H","I","J","K","L","M",
          "N","O","P","Q","R","S","T","U","V","W","X","Y","Z"}
Digit == {"0","1","2","3","4","5","6","7","8","9"}
IdChars == Lower \cup Upper \cup Digit \cup {"_", "-"}

IsIdShape_AnyLength(s) == \A i \in 1..Len(s) : s[i] \in IdChars

\* /^[a-zA-Z0-9_-]{11}$/.test(s)
IsIdShape(s) == Len(s) = IdLen /\ \A i \in 1..Len(s) : s[i] \in IdChars

IdX == <<"d","Q","w","4","w","9","W","g","X","c","Q">>
IdY == <<"a","b","c","d","e","f","g","h","i","_","-">>
IdShort == <<"a","b","c">>

\* A submitted youtube_url: its text `s`, and what `new URL(s.trim())` makes of
\* it: NoURL when the constructor throws, else hostname (labels), the
\* non-empty path segments and the value of searchParams.get("v") (Null when
\* the parameter is absent).
NoURL == [ok |-> FALSE, hostname |-> <<>>, path |-> <<>>, v |-> Null]
URL(hostname, path, v) == [ok |-> TRUE, hostname |-> hostname, path |-> path, v |-> v]
Text(s) == [s |-> s, url |-> NoURL]
\* a URL's text holds ":" and "/", which the bare-id pattern rejects
UrlText == <<"h","t","t","p","s",":","/","/">>
Link(hostname, path, v) == [s |-> UrlText, url |-> URL(hostname, path, v)]

\* u.hostname.replace(/^www\./, "")
StripWww(hostname) ==
  IF Len(hostname) > 1 /\ Head(hostname) = "www" THEN Tail(hostname) ELSE hostname

\* parts.findIndex(p => p === "shorts" || p === "embed"), 0 when none
RECURSIVE FindPrefixIndex(_, _)
FindPrefixIndex(parts, i) ==
  IF i > Len(parts) THEN 0
  ELSE IF parts[i] = <<"shorts">> \/ parts[i] = <<"embed">> THEN i
  ELSE FindPrefixIndex(parts, i + 1)

\* the trimmed input returned without the shape test
extractYouTubeId_Unvalidated(input) ==
  IF Trim(input.s) = <<>> THEN Null ELSE Trim(input.s)

extractYouTubeId(input) ==
  LET s == Trim(input.s)
      u == input.url
      host == StripWww(u.hostname)
      idx == FindPrefixIndex(u.path, 1)
  IN  IF s = <<>> THEN Null
      ELSE IF IsIdShape(s) THEN s
      ELSE IF ~u.ok THEN Null
      ELSE IF host = <<"youtu", "be">> THEN
             IF Len(u.path) > 0 /\ IsIdShape(u.path[1]) THEN u.path[1] ELSE Null
      ELSE IF u.v # Null /\ IsIdShape(u.v) THEN u.v
      ELSE IF idx > 0 THEN
             IF idx + 1 <= Len(u.path) /\ IsIdShape(u.path[idx + 1])
             THEN u.path[idx + 1] ELSE Null
      ELSE Null

(* ----------------------------- form data -------------------------------- *)

\* observation_points as typed: lines separated by "\n"
PointsTwo == <<"A", "\n", " ", "\n", " ", "B">>

\* pointsRaw.split("\n")
RECURSIVE SplitLines(_, _)
SplitLines(s, cur) ==
  IF s = <<>> THEN <<cur>>
  ELSE IF Head(s) = "\n" THEN <<cur>> \o SplitLines(Tail(s), <<>>)
  ELSE SplitLines(Tail(s), Append(cur, Head(s)))

RECURSIVE DropEmpty(_)
DropEmpty(list) ==
  IF list = <<>> THEN <<>>
  ELSE IF Head(list) = <<>> THEN DropEmpty(Tail(list))
  ELSE <<Head(list)>> \o DropEmpty(Tail(list))

ParsePoints_KeepsPadding(pointsRaw) == DropEmpty(SplitLines(pointsRaw, <<>>))

\* pointsRaw.split("\n").map(s => s.trim()).filter(Boolean)
ParsePoints(pointsRaw) ==
  LET lines == SplitLines(pointsRaw, <<>>)
  IN  DropEmpty([i \in 1..Len(lines) |-> Trim(lines[i])])

\* `points.length ? points : null`
PointsOrNull(points) == IF Len(points) > 0 THEN points ELSE Null

\* Number(published_yearRaw): digits give the number, anything else NaN
NaN == <<"<NaN>">>
ToNumber(s) == IF \A i \in 1..Len(s) : s[i] \in Digit THEN s ELSE NaN

\* String(formData.get(k) ?? ""): a field the form does not carry reads ""
EmptyForm ==
  [youtube_url |-> Text(<<>>), youtube_id |-> <<>>, video_id |-> 0,
   title |-> <<>>, channel_name |-> <<>>, thumbnail_url |-> <<>>,
   published_year |-> <<>>, hitokoto_summary |-> <<>>,
   product_value_focus |-> <<>>, visual_main_character |-> <<>>,
   emotional_tone |-> <<>>, product_value_focus_detail |-> <<>>,
   visual_main_character_detail |-> <<>>, appeal_method |-> <<>>,
   appeal_method_detail |-> <<>>, emotional_tone_detail |-> <<>>,
   observation_text |-> <<>>, observation_points |-> <<>>,
   simulate_fail |-> <<>>]

\* facet inputs as typed: product_value_focus, visual_main_character,
\* emotional_tone
Triples ==
  { <<TxtPaddedA, TxtEmpty, TxtLowerA>>,
    <<TxtA, TxtA, TxtBlank>>,
    <<TxtEmpty, TxtBlank, TxtEmpty>> }

BadUrls ==
  { Link(<<"example", "com">>, <<<<"x">>>>, Null),
    Link(<<"www", "youtube", "com">>, <<<<"shorts">>, IdShort>>, Null) }

\* a complete bulk submission; `tag` tells one submission's texts from
\* another's, the second character tells the fields apart
BulkForm(tag, url, triple) ==
  [EmptyForm EXCEPT
     !.youtube_url = url, !.title = tag \o <<"t">>,
     !.channel_name = tag \o <<"c">>, !.published_year = <<"2">>,
     !.hitokoto_summary = <<" ">> \o tag \o <<"s", " ">>,
     !.product_value_focus = triple[1], !.visual_main_character = triple[2],
     !.emotional_tone = triple[3],
     !.product_value_focus_detail = tag \o <<"d", "\n">>,
     !.appeal_method = tag \o <<"m">>,
     !.observation_text = <<"\t">> \o tag \o <<"o">>,
     !.observation_points = PointsTwo]

SampleForm == BulkForm(TxtA, Text(IdX), <<TxtA, TxtA, TxtBlank>>)

RequiredFields ==
  {"title", "hitokoto_summary", "product_value_focus_detail", "observation_text"}

StepLabels ==
  <<"core_summary", "structure_core", "structure_detail", "observation_notes">>

Label(i) == StepLabels[i]

\* a step label as the simulate_fail field carries it (one token)
SimulateText(label) == <<label>>

\* the token the listing page's filter uses for "column is null"
NULL_SENTINEL == <<"_", "_", "N", "U", "L", "L", "_", "_">>

\* complete submissions: both identifiers, each in two of its forms, with
\* differing texts and facets, one of them the token of the listing filter
CompleteForms ==
  { BulkForm(TxtA, Text(<<" ">> \o IdX), <<TxtA, TxtA, TxtBlank>>),
    BulkForm(TxtB, Link(<<"youtu", "be">>, <<IdX>>, Null),
             <<TxtPaddedA, TxtEmpty, TxtLowerA>>),
    BulkForm(TxtA, Link(<<"www", "youtube", "com">>, <<<<"watch">>>>, IdY),
             <<TxtEmpty, TxtBlank, TxtEmpty>>),
    BulkForm(TxtB, Link(<<"m", "youtube", "com">>, <<<<"embed">>, IdY>>, Null),
             <<NULL_SENTINEL, TxtA, TxtBlank>>) }

\* one required field left empty or blank
IncompleteForms ==
  { [SampleForm EXCEPT ![f] = blank] :
      f \in RequiredFields, blank \in {TxtEmpty, TxtBlank} }
  \cup
  \* only an optional Detail field filled in
  { [SampleForm EXCEPT !.product_value_focus_detail = TxtEmpty,
                       !.emotional_tone_detail = TxtA] }

\* no identifier in the youtube_url, once with a required field missing too
MalformedForms ==
  { [SampleForm EXCEPT !.youtube_url = url] : url \in BadUrls }
  \cup { [SampleForm EXCEPT !.youtube_url = Text(IdShort), !.title = TxtBlank] }

SimulateForms ==
  { [BulkForm(TxtB, Text(IdX), <<TxtPaddedA, TxtEmpty, TxtLowerA>>)
       EXCEPT !.simulate_fail = SimulateText(Label(i))] : i \in 1..4 }

SaveAllForms ==
  CompleteForms \cup IncompleteForms \cup MalformedForms \cup SimulateForms

(* ---------------------------- stored values ----------------------------- *)

\* a value read from storage (a jsonb column, a nested relation) as the page
\* code sees it: its type tag, its text for a string, number or boolean, its
\* elements for an array
JsNull == [t |-> "null", s |-> <<>>, items |-> <<>>]

JsUndefined == [t |-> "undefined", s |-> <<>>, items |-> <<>>]

JsStr(s) == [t |-> "string", s |-> s, items |-> <<>>]

\* a non-negative integer, written in digits
JsNum(digits) == [t |-> "number", s |-> digits, items |-> <<>>]

TxtTrue == <<"t", "r", "u", "e">>

TxtFalse == <<"f", "a", "l", "s", "e">>

TxtNull == <<"n", "u", "l", "l">>

JsBool(word) == [t |-> "boolean", s |-> word, items |-> <<>>]

\* the object {}
JsObj == [t |-> "object", s |-> <<>>, items |-> <<>>]

JsArr(items) == [t |-> "array", s |-> <<>>, items |-> items]

\* `!v` is false
Truthy(v) ==
  CASE v.t \in {"null", "undefined"} -> FALSE
    [] v.t = "string" -> v.s # <<>>
    [] v.t = "number" -> v.s # <<"0">>
    [] v.t = "boolean" -> v.s = TxtTrue
    [] OTHER -> TRUE

RECURSIVE Join(_)
Join(texts) ==
  IF texts = <<>> THEN <<>>
  ELSE IF Len(texts) = 1 THEN texts[1]
  ELSE texts[1] \o <<",">> \o Join(Tail(texts))

\* String(v), for an array of scalars at most
ToStr(v) ==
  LET Scalar(x) ==
        CASE x.t = "null" -> TxtNull
          [] x.t = "undefined" ->
               <<"u", "n", "d", "e", "f", "i", "n", "e", "d">>
          [] x.t = "object" ->
               <<"[", "o", "b", "j", "e", "c", "t", " ",
                 "O", "b", "j", "e", "c", "t", "]">>
          [] OTHER -> x.s
  IN  IF v.t = "array"
      THEN Join([i \in 1..Len(v.items) |->
                   IF v.items[i].t \in {"null", "undefined"} THEN <<>>
                   ELSE Scalar(v.items[i])])
      ELSE Scalar(v)

(* JSON.parse, for texts without escape sequences, fractions, signs,
   nested arrays and object members *)

JsonWs == {" ", "\n", "\t", "\r"}

At(t, i) == IF i >= 1 /\ i <= Len(t) THEN t[i] ELSE ""

RECURSIVE SkipWs(_, _)
SkipWs(t, i) == IF At(t, i) \in JsonWs THEN SkipWs(t, i + 1) ELSE i

\* the closing quote of a string whose body starts at i, 0 if there is none
RECURSIVE StringEnd(_, _)
StringEnd(t, i) ==
  IF i > Len(t) THEN 0
  ELSE IF t[i] = "\"" THEN i
  ELSE IF t[i] \in {"\\", "\n", "\t", "\r"} THEN 0
  ELSE StringEnd(t, i + 1)

RECURSIVE DigitsEnd(_, _)
DigitsEnd(t, i) == IF At(t, i) \in Digit THEN DigitsEnd(t, i + 1) ELSE i

HasWord(t, i, word) ==
  /\ i + Len(word) - 1 <= Len(t)
  /\ SubSeq(t, i, i + Len(word) - 1) = word

ParseFail == [ok |-> FALSE, value |-> JsNull, next |-> 0]

Parsed(value, next) == [ok |-> TRUE, value |-> value, next |-> next]

ParseScalar(t, i) ==
  LET c == At(t, i)
  IN  IF c = "\""
      THEN LET e == StringEnd(t, i + 1)
           IN  IF e = 0 THEN ParseFail
               ELSE Parsed(JsStr(SubSeq(t, i + 1, e - 1)), e + 1)
      ELSE IF c \in Digit
      THEN LET e == DigitsEnd(t, i)
           IN  IF c = "0" /\ e > i + 1 THEN ParseFail
               ELSE Parsed(JsNum(SubSeq(t, i, e - 1)), e)
      ELSE IF HasWord(t, i, TxtTrue) THEN Parsed(JsBool(TxtTrue), i + 4)
      ELSE IF HasWord(t, i, TxtFalse) THEN Parsed(JsBool(TxtFalse), i + 5)
      ELSE IF HasWord(t, i, TxtNull) THEN Parsed(JsNull, i + 4)
      ELSE IF c = "{" /\ At(t, SkipWs(t, i + 1)) = "}"
      THEN Parsed(JsObj, SkipWs(t, i + 1) + 1)
      ELSE ParseFail

RECURSIVE ParseElements(_, _, _)
ParseElements(t, i, acc) ==
  LET e == ParseScalar(t, i)
      j == SkipWs(t, e.next)
  IN  IF ~e.ok THEN ParseFail
      ELSE IF At(t, j) = ","
      THEN ParseElements(t, SkipWs(t, j + 1), Append(acc, e.value))
      ELSE IF At(t, j) = "]" THEN Parsed(JsArr(Append(acc, e.value)), j + 1)
      ELSE ParseFail

ParseValue(t, i) ==
  IF At(t, i) = "["
  THEN LET j == SkipWs(t, i + 1)
       IN  IF At(t, j) = "]" THEN Parsed(JsArr(<<>>), j + 1)
           ELSE ParseElements(t, j, <<>>)
  ELSE ParseScalar(t, i)

\* JSON.parse(text): ok is false where it throws
JSONParse(text) ==
  LET v == ParseValue(text, SkipWs(text, 1))
  IN  IF v.ok /\ SkipWs(text, v.next) = Len(text) + 1
      THEN [ok |-> TRUE, value |-> v.value]
      ELSE [ok |-> FALSE, value |-> JsNull]

\* JSON.stringify of an array of scalars
JSONStringify(v) ==
  LET Scalar(x) ==
        IF x.t = "string" THEN <<"\"">> \o x.s \o <<"\"">>
        ELSE IF x.t = "object" THEN <<"{", "}">>
        ELSE IF x.t = "null" THEN TxtNull
        ELSE x.s
  IN  IF v.t = "array"
      THEN <<"[">> \o Join([i \in 1..Len(v.items) |-> Scalar(v.items[i])])
             \o <<"]">>
      ELSE Scalar(v)

(* --------------------------- normalizeBullets --------------------------- *)

\* list.map(String).map(s => s.trim()).filter(Boolean)
CleanList(items) ==
  DropEmpty([i \in 1..Len(items) |-> Trim(ToStr(items[i]))])

normalizeBullets_KeepsEmpties(v) ==
  IF ~Truthy(v) THEN <<>>
  ELSE IF v.t = "array"
  THEN [i \in 1..Len(v.items) |-> Trim(ToStr(v.items[i]))]
  ELSE IF v.t = "string"
  THEN LET trimmed == Trim(v.s)
           parsed == JSONParse(trimmed)
       IN  IF Len(trimmed) = 0 THEN <<>>
           ELSE IF ~parsed.ok THEN <<trimmed>>
           ELSE IF parsed.value.t = "array"
           THEN [i \in 1..Len(parsed.value.items) |->
                   Trim(ToStr(parsed.value.items[i]))]
           ELSE <<>>
  ELSE <<>>

normalizeBullets(v) ==
  IF ~Truthy(v) THEN <<>>
  ELSE IF v.t = "array" THEN CleanList(v.items)
  ELSE IF v.t = "string"
  THEN LET trimmed == Trim(v.s)
           parsed == JSONParse(trimmed)
       IN  IF Len(trimmed) = 0 THEN <<>>
           ELSE IF ~parsed.ok THEN <<trimmed>>
           ELSE IF parsed.value.t = "array" THEN CleanList(parsed.value.items)
           ELSE <<>>
  ELSE <<>>

(* ------------------------------ storage -------------------------------- *)

VARIABLES
  env,      \* process.env and the schema of the deployment, fixed at start
  cookie,   \* value of the admin_auth cookie ("" when absent)
  db,       \* the five tables, each the sequence of its rows
  run,      \* the request in progress: its position, locals and response
  writes,   \* write requests started so far
  faults    \* storage rejections injected so far

vars == <<env, cookie, db, run, writes, faults>>

Tables ==
  {"videos", "video_core_summary", "video_structure_core",
   "video_structure_detail", "video_observation_notes"}

Columns(t) ==
  CASE t = "videos" ->
         {"id", "youtube_id", "title", "channel_name", "thumbnail_url",
          "published_year", "created_at"}
    [] t = "video_core_summary" -> {"video_id", "hitokoto_summary"}
    [] t = "video_structure_core" ->
         {"video_id", "product_value_focus", "visual_main_character",
          "emotional_tone"}
    [] t = "video_structure_detail" ->
         {"video_id", "product_value_focus_detail",
          "visual_main_character_detail", "appeal_method",
          "appeal_method_detail", "emotional_tone_detail"}
    [] t = "video_observation_notes" ->
         {"video_id", "observation_text", "observation_points", "created_at"}

\* columns the schema declares NOT NULL
NotNullColumns(t) ==
  CASE t = "videos" -> {"title"}
    [] t = "video_core_summary" -> {"hitokoto_summary"}
    [] t = "video_structure_core" -> {}
    [] t = "video_structure_detail" -> {"product_value_focus_detail"}
    [] t = "video_observation_notes" -> {"observation_text"}

\* columns under a UNIQUE constraint; the schema of video_observation_notes
\* is not part of the sources: either variant may be deployed
UniqueColumns(t, notesUnique) ==
  CASE t = "videos" -> {"youtube_id"}
    [] t = "video_observation_notes" ->
         IF notesUnique THEN {"video_id"} ELSE {}
    [] OTHER -> {"video_id"}

\* a JSON number sent for a text column (the simulate_fail payload)
NumberOne == <<"<number 1>">>

TextColumns ==
  {"youtube_id", "title", "channel_name", "thumbnail_url", "hitokoto_summary",
   "product_value_focus", "visual_main_character", "emotional_tone",
   "product_value_focus_detail", "visual_main_character_detail",
   "appeal_method", "appeal_method_detail", "emotional_tone_detail",
   "observation_text"}

RowIndex(rows, col, val) ==
  IF \E i \in 1..Len(rows) : rows[i][col] = val
  THEN CHOOSE i \in 1..Len(rows) : rows[i][col] = val
  ELSE 0

\* the row an INSERT of `payload` proposes: absent columns take their default
ProposedRow(t, rows, payload) ==
  [c \in Columns(t) |->
     IF c \in DOMAIN payload THEN
       (IF c \in TextColumns /\ payload[c] = NumberOne
        THEN TxtOne ELSE payload[c])
     ELSE IF c \in {"id", "created_at"} THEN Len(rows) + 1
     ELSE Null]

\* does the backend reject the proposed row outright
Violates(dbv, t, payload, coerce) ==
  LET row == ProposedRow(t, dbv[t], payload)
  IN  \/ \E c \in NotNullColumns(t) : row[c] = Null
      \/ \E c \in DOMAIN payload \cap TextColumns :
            payload[c] = NumberOne /\ ~coerce
      \/ /\ t # "videos"
         /\ RowIndex(dbv.videos, "id", row.video_id) = 0

Failed(dbv) == [ok |-> FALSE, db |-> dbv, id |-> 0]

\* .insert(payload)
Insert(dbv, t, payload, notesUnique, coerce, rejected) ==
  LET row == ProposedRow(t, dbv[t], payload)
  IN  IF \/ rejected
         \/ Violates(dbv, t, payload, coerce)
         \/ \E c \in UniqueColumns(t, notesUnique) :
               RowIndex(dbv[t], c, row[c]) # 0
      THEN Failed(dbv)
      ELSE [ok |-> TRUE, db |-> [dbv EXCEPT ![t] = Append(@, row)],
            id |-> IF t = "videos" THEN row.id ELSE 0]

\* an upsert that keeps the row it conflicts with (ignoreDuplicates)
Upsert_IgnoreDuplicates(dbv, t, payload, key, notesUnique, coerce, rejected) ==
  LET row == ProposedRow(t, dbv[t], payload)
      i == RowIndex(dbv[t], key, row[key])
  IN  IF \/ rejected
         \/ key \notin UniqueColumns(t, notesUnique)
         \/ Violates(dbv, t, payload, coerce)
      THEN Failed(dbv)
      ELSE IF i # 0
      THEN [ok |-> TRUE, db |-> dbv,
            id |-> IF t = "videos" THEN dbv[t][i].id ELSE 0]
      ELSE [ok |-> TRUE, db |-> [dbv EXCEPT ![t] = Append(@, row)],
            id |-> IF t = "videos" THEN row.id ELSE 0]

\* .upsert(payload, { onConflict: key }): INSERT ... ON CONFLICT (key) DO
\* UPDATE SET <the payload's columns>
Upsert(dbv, t, payload, key, notesUnique, coerce, rejected) ==
  LET row == ProposedRow(t, dbv[t], payload)
      i == RowIndex(dbv[t], key, row[key])
      merged == [c \in Columns(t) |->
                   IF c \in DOMAIN payload THEN row[c] ELSE dbv[t][i][c]]
  IN  IF \/ rejected
         \/ key \notin UniqueColumns(t, notesUnique)
         \/ Violates(dbv, t, payload, coerce)
      THEN Failed(dbv)
      ELSE IF i # 0
      THEN [ok |-> TRUE, db |-> [dbv EXCEPT ![t][i] = merged],
            id |-> IF t = "videos" THEN dbv[t][i].id ELSE 0]
      ELSE [ok |-> TRUE, db |-> [dbv EXCEPT ![t] = Append(@, row)],
            id |-> IF t = "videos" THEN row.id ELSE 0]

upsertByVideoId(dbv, table, video_id, payload, notesUnique, coerce, rejected) ==
  Upsert(dbv, table, [c \in DOMAIN payload \cup {"video_id"} |->
                        IF c = "video_id" THEN video_id ELSE payload[c]],
         "video_id", notesUnique, coerce, rejected)

\* rows of a dependent table that belong to one Entity
RowsOf(rows, video_id) == SelectSeq(rows, LAMBDA row : row.video_id = video_id)

EmptyDb == [t \in Tables |-> <<>>]

(* ------------------------------ requests ------------------------------- *)

\* one request at a time, or two in flight together
OneRun == {"r1"}

TwoRuns == {"r1", "r2"}

\* the requests of the behaviour at hand
Runs == DOMAIN run

NoOptions == [values |-> <<>>, hasNull |-> FALSE]

NoResponse ==
  [kind |-> "none", video_id |-> 0, fail |-> <<>>, err |-> "none",
   rows |-> <<>>, optErr |-> FALSE, value |-> <<>>,
   options |-> [pvf |-> NoOptions, vmc |-> NoOptions, tone |-> NoOptions]]
\* redirect("/admin") of an unauthenticated caller
ToLogin == [NoResponse EXCEPT !.kind = "login"]
\* redirect(`/admin?err=...`)
Err(reason) == [NoResponse EXCEPT !.kind = "err", !.err = reason]
\* redirect(`/admin?ok=...&video_id=...`)
Ok(kind, video_id) == [NoResponse EXCEPT !.kind = kind, !.video_id = video_id]

\* one storage call of a request and whether the backend accepted it
Call(table, ok) == [table |-> table, ok |-> ok]

\* searchParams: for each key the values the URL carries for it (none, one
\* string, or several, which Next.js hands over as an array)
EmptySearchParams == [pvf |-> <<>>, vmc |-> <<>>, tone |-> <<>>]

\* the listing query before any filter is chained to it
NoQuery == [inner |-> FALSE, filters |-> <<>>, limit |-> 0]

IdleRun ==
  [pc |-> "idle", handler |-> "none", form |-> EmptyForm, youtube_id |-> Null,
   video_id |-> 0, failures |-> <<>>, calls |-> <<>>, response |-> NoResponse,
   pre |-> EmptyDb, sp |-> EmptySearchParams, query |-> NoQuery,
   arg |-> JsNull]

isDev == env.NODE_ENV # "production"

isAuthed_CookieOnly == cookie = "1"

isAuthed == env.ADMIN_PASSWORD # "" /\ cookie = "1"

Passwords == {"pw", "guess", ""}

Init ==
  /\ env \in [ADMIN_PASSWORD : {"", "pw"},
              NODE_ENV : {"production", "development"},
              notesUnique : BOOLEAN]
  /\ cookie \in {"", "1"}
  /\ cookie = "1" => env.ADMIN_PASSWORD # ""
  /\ db = EmptyDb
  /\ run = [r \in OneRun |-> IdleRun]
  /\ writes = 0
  /\ faults = 0

\* a request starts on an idle run; the requests of one browser follow one
\* another, those of two browsers may overlap
Starts(r) ==
  /\ run[r].pc = "idle"
  /\ writes < MaxWrites
  /\ writes' = writes + 1

\* the backend may reject any write, at most MaxFaults times
Rejected(rejected) ==
  /\ rejected => faults < MaxFaults
  /\ faults' = IF rejected THEN faults + 1 ELSE faults

Begun(r, handler, form) ==
  [IdleRun EXCEPT !.handler = handler, !.form = form, !.pre = db]

Done(r, started, response) ==
  run' = [run EXCEPT ![r] = [started EXCEPT !.pc = "done", !.response = response]]

loginAction(r, password) ==
  LET started == [IdleRun EXCEPT !.handler = "loginAction", !.arg = password,
                                 !.pre = db]
  IN  /\ \A q \in Runs : run[q].pc = "idle"
      /\ IF env.ADMIN_PASSWORD = ""
         THEN /\ cookie' = cookie
              /\ Done(r, started, ToLogin)
         ELSE IF password = env.ADMIN_PASSWORD
         THEN /\ cookie' = "1"
              /\ Done(r, started, ToLogin)
         ELSE /\ cookie' = cookie
              /\ Done(r, started, [NoResponse EXCEPT !.kind = "login_fail"])
      /\ UNCHANGED <<env, db, writes, faults>>

logoutAction(r) ==
  /\ \A q \in Runs : run[q].pc = "idle"
  /\ cookie' = ""
  /\ Done(r, [IdleRun EXCEPT !.handler = "logoutAction", !.pre = db], ToLogin)
  /\ UNCHANGED <<env, db, writes, faults>>

\* the guard without its last operand
RequiredMissing_NoNoteText(title, hitokoto_summary, product_value_focus_detail, observation_text) ==
  \/ title = <<>>
  \/ hitokoto_summary = <<>>
  \/ product_value_focus_detail = <<>>

\* `!title || !hitokoto_summary || !product_value_focus_detail ||
\* !observation_text`
RequiredMissing(title, hitokoto_summary, product_value_focus_detail, observation_text) ==
  \/ title = <<>>
  \/ hitokoto_summary = <<>>
  \/ product_value_focus_detail = <<>>
  \/ observation_text = <<>>

\* saveAllAction up to its first storage call
saveAllAction(r, form) ==
  LET started == Begun(r, "saveAllAction", form)
      youtube_id == extractYouTubeId(form.youtube_url)
      title == Trim(form.title)
      hitokoto_summary == Trim(form.hitokoto_summary)
      product_value_focus_detail == Trim(form.product_value_focus_detail)
      observation_text == Trim(form.observation_text)
  IN  /\ Starts(r)
      /\ IF ~isAuthed THEN Done(r, started, ToLogin)
         ELSE IF youtube_id = Null THEN Done(r, started, Err("youtube_id"))
         ELSE IF RequiredMissing(title, hitokoto_summary,
                                 product_value_focus_detail, observation_text)
         THEN Done(r, started, Err("required"))
         ELSE run' = [run EXCEPT ![r] =
                        [started EXCEPT !.pc = "videos",
                                        !.youtube_id = youtube_id]]
      /\ UNCHANGED <<env, cookie, db, faults>>

\* the guard never taken
EntityFailed_Never(res) == FALSE

\* `vErr || !vrow?.id`
EntityFailed(res) == ~res.ok \/ res.id = 0

\* step 1: upsert of videos keyed by youtube_id
saveAllUpsertVideos(r, rejected) ==
  LET me == run[r]
      form == me.form
      published_yearRaw == Trim(form.published_year)
      payload ==
        [youtube_id |-> me.youtube_id,
         title |-> Trim(form.title),
         channel_name |-> OrNull(Trim(form.channel_name)),
         thumbnail_url |-> OrNull(Trim(form.thumbnail_url)),
         published_year |-> IF Len(published_yearRaw) > 0
                            THEN ToNumber(published_yearRaw) ELSE Null]
      res == Upsert(db, "videos", payload, "youtube_id", env.notesUnique,
                    FALSE, rejected)
      called == [me EXCEPT !.calls = Append(@, Call("videos", res.ok))]
  IN  /\ me.pc = "videos"
      /\ Rejected(rejected)
      /\ db' = res.db
      /\ IF EntityFailed(res)
         THEN Done(r, called, Err("videos"))
         ELSE run' = [run EXCEPT ![r] =
                        [called EXCEPT !.pc = "core_summary",
                                       !.video_id = res.id]]
      /\ UNCHANGED <<env, cookie, writes>>

\* `isDev && simulateFail === label`
Simulates(form, label) ==
  isDev /\ Trim(form.simulate_fail) = SimulateText(label)

CoreSummaryPayload(form) ==
  IF Simulates(form, "core_summary")
  THEN [hitokoto_summary |-> Null]
  ELSE [hitokoto_summary |-> Trim(form.hitokoto_summary)]

StructureCorePayload(form) ==
  IF Simulates(form, "structure_core")
  THEN [product_value_focus |-> NumberOne]
  ELSE [product_value_focus |-> OrNull(Trim(form.product_value_focus)),
        visual_main_character |-> OrNull(Trim(form.visual_main_character)),
        emotional_tone |-> OrNull(Trim(form.emotional_tone))]

StructureDetailPayload(form) ==
  IF Simulates(form, "structure_detail")
  THEN [product_value_focus_detail |-> Null]
  ELSE [product_value_focus_detail |-> Trim(form.product_value_focus_detail),
        visual_main_character_detail |->
          OrNull(Trim(form.visual_main_character_detail)),
        appeal_method |-> OrNull(Trim(form.appeal_method)),
        appeal_method_detail |-> OrNull(Trim(form.appeal_method_detail)),
        emotional_tone_detail |-> OrNull(Trim(form.emotional_tone_detail))]

ObservationNotesPayload(form) ==
  IF Simulates(form, "observation_notes")
  THEN [observation_text |-> Null]
  ELSE [observation_text |-> Trim(form.observation_text),
        observation_points |->
          PointsOrNull(ParsePoints(form.observation_points))]

\* what the handler does after the last step: partial or full success
Outcome(video_id, failures) ==
  IF Len(failures) > 0
  THEN [Ok("bulk_saved_partial", video_id) EXCEPT !.fail = failures]
  ELSE Ok("bulk_saved", video_id)

\* the label pushed whatever the result
Recorded_Always(failures, label, ok) == Append(failures, label)

\* `if (!r.ok) failures.push(label)`
Recorded(failures, label, ok) == IF ok THEN failures ELSE Append(failures, label)

\* a dependent write whose failure ends the request
DependentStep_StopsOnFailure(r, label, table, payload, next, coerce, rejected) ==
  LET me == run[r]
      res == upsertByVideoId(db, table, me.video_id, payload,
                             env.notesUnique, coerce, rejected)
      after == [me EXCEPT
                  !.calls = Append(@, Call(table, res.ok)),
                  !.failures = Recorded(@, label, res.ok)]
  IN  /\ me.pc = label
      /\ Rejected(rejected)
      /\ db' = res.db
      /\ IF next = "done" \/ ~res.ok
         THEN Done(r, after, Outcome(after.video_id, after.failures))
         ELSE run' = [run EXCEPT ![r] = [after EXCEPT !.pc = next]]
      /\ UNCHANGED <<env, cookie, writes>>

\* one dependent write: a failure is recorded and the next step follows
DependentStep(r, label, table, payload, next, coerce, rejected) ==
  LET me == run[r]
      res == upsertByVideoId(db, table, me.video_id, payload,
                             env.notesUnique, coerce, rejected)
      after == [me EXCEPT
                  !.calls = Append(@, Call(table, res.ok)),
                  !.failures = Recorded(@, label, res.ok)]
  IN  /\ me.pc = label
      /\ Rejected(rejected)
      /\ db' = res.db
      /\ IF next = "done"
         THEN Done(r, after, Outcome(after.video_id, after.failures))
         ELSE run' = [run EXCEPT ![r] = [after EXCEPT !.pc = next]]
      /\ UNCHANGED <<env, cookie, writes>>

saveAllCoreSummary(r, rejected) ==
  DependentStep(r, "core_summary", "video_core_summary",
                CoreSummaryPayload(run[r].form), "structure_core",
                FALSE, rejected)

saveAllStructureCore(r, coerce, rejected) ==
  DependentStep(r, "structure_core", "video_structure_core",
                StructureCorePayload(run[r].form), "structure_detail",
                coerce, rejected)

saveAllStructureDetail(r, rejected) ==
  DependentStep(r, "structure_detail", "video_structure_detail",
                StructureDetailPayload(run[r].form), "observation_notes",
                FALSE, rejected)

saveAllObservationNotes(r, rejected) ==
  DependentStep(r, "observation_notes", "video_observation_notes",
                ObservationNotesPayload(run[r].form), "done",
                FALSE, rejected)

(* ------------------------- per-table actions --------------------------- *)

VideoForms ==
  { [EmptyForm EXCEPT !.youtube_id = <<" ">> \o IdY, !.title = TxtPaddedA] }

createVideoAction(r, form, rejected) ==
  LET published_yearRaw == Trim(form.published_year)
      payload ==
        [youtube_id |-> Trim(form.youtube_id),
         title |-> Trim(form.title),
         channel_name |-> Trim(form.channel_name),
         thumbnail_url |-> OrNull(Trim(form.thumbnail_url)),
         published_year |-> IF Len(published_yearRaw) > 0
                            THEN ToNumber(published_yearRaw) ELSE Null]
      res == Insert(db, "videos", payload, env.notesUnique, FALSE, rejected)
      started == [Begun(r, "createVideoAction", form)
                    EXCEPT !.calls = Append(@, Call("videos", res.ok))]
  IN  /\ Starts(r)
      /\ IF ~isAuthed
         THEN /\ rejected = FALSE
              /\ Done(r, Begun(r, "createVideoAction", form), ToLogin)
              /\ UNCHANGED <<db, faults>>
         ELSE /\ Rejected(rejected)
              /\ db' = res.db
              /\ Done(r, started,
                      IF ~res.ok THEN Err("videos")
                      ELSE IF res.id = 0 THEN Err("no id")
                      ELSE Ok("video_saved", res.id))
      /\ UNCHANGED <<env, cookie>>

\* a per-table handler that upserts on video_id where the code inserts
PerTable_Upserts(r, handler, table, saved, form, payload, rejected) ==
  LET res == Upsert(db, table, payload, "video_id", env.notesUnique, FALSE,
                    rejected)
      started == Begun(r, handler, form)
  IN  /\ Starts(r)
      /\ IF ~isAuthed
         THEN /\ rejected = FALSE
              /\ Done(r, started, ToLogin)
              /\ UNCHANGED <<db, faults>>
         ELSE /\ Rejected(rejected)
              /\ db' = res.db
              /\ Done(r, [started EXCEPT !.calls = Append(@, Call(table, res.ok))],
                      IF res.ok THEN Ok(saved, form.video_id) ELSE Err(table))
      /\ UNCHANGED <<env, cookie>>

\* the shape the three 1:1 handlers and the note handler share
PerTable(r, handler, table, saved, form, payload, rejected) ==
  LET res == Insert(db, table, payload, env.notesUnique, FALSE, rejected)
      started == Begun(r, handler, form)
  IN  /\ Starts(r)
      /\ IF ~isAuthed
         THEN /\ rejected = FALSE
              /\ Done(r, started, ToLogin)
              /\ UNCHANGED <<db, faults>>
         ELSE /\ Rejected(rejected)
              /\ db' = res.db
              /\ Done(r, [started EXCEPT !.calls = Append(@, Call(table, res.ok))],
                      IF res.ok THEN Ok(saved, form.video_id) ELSE Err(table))
      /\ UNCHANGED <<env, cookie>>

\* video_id as typed: an existing id, or one that names no video (0)
VideoIdInputs == 0..Len(db.videos)

CoreSummaryForms ==
  { [EmptyForm EXCEPT !.video_id = id, !.hitokoto_summary = TxtPaddedA] :
      id \in VideoIdInputs }

createCoreSummaryAction(r, form, rejected) ==
  PerTable(r, "createCoreSummaryAction", "video_core_summary",
           "core_summary_saved", form,
           [video_id |-> form.video_id,
            hitokoto_summary |-> Trim(form.hitokoto_summary)],
           rejected)

StructureCoreForms ==
  { [EmptyForm EXCEPT !.video_id = id, !.product_value_focus = TxtLowerA,
                      !.visual_main_character = TxtBlank,
                      !.emotional_tone = TxtPaddedA] : id \in VideoIdInputs }

createStructureCoreAction(r, form, rejected) ==
  PerTable(r, "createStructureCoreAction", "video_structure_core",
           "structure_core_saved", form,
           [video_id |-> form.video_id,
            product_value_focus |-> OrNull(Trim(form.product_value_focus)),
            visual_main_character |-> OrNull(Trim(form.visual_main_character)),
            emotional_tone |-> OrNull(Trim(form.emotional_tone))],
           rejected)

StructureDetailForms ==
  { [EmptyForm EXCEPT !.video_id = id, !.product_value_focus_detail = text] :
      id \in VideoIdInputs, text \in {TxtPaddedA, TxtBlank} }

createStructureDetailAction(r, form, rejected) ==
  PerTable(r, "createStructureDetailAction", "video_structure_detail",
           "structure_detail_saved", form,
           [video_id |-> form.video_id,
            product_value_focus_detail |->
              OrNull(Trim(form.product_value_focus_detail)),
            visual_main_character_detail |->
              OrNull(Trim(form.visual_main_character_detail)),
            appeal_method |-> OrNull(Trim(form.appeal_method)),
            appeal_method_detail |-> OrNull(Trim(form.appeal_method_detail)),
            emotional_tone_detail |-> OrNull(Trim(form.emotional_tone_detail))],
           rejected)

ObservationNoteForms ==
  { [EmptyForm EXCEPT !.video_id = id, !.observation_text = text,
                      !.observation_points = PointsTwo] :
      id \in VideoIdInputs, text \in {TxtPaddedA, TxtBlank} }

createObservationNoteAction(r, form, rejected) ==
  PerTable(r, "createObservationNoteAction", "video_observation_notes",
           "observation_saved", form,
           [video_id |-> form.video_id,
            observation_text |-> OrNull(Trim(form.observation_text)),
            observation_points |->
              PointsOrNull(ParsePoints(form.observation_points))],
           rejected)

\* the response reaches the caller and the request ends
Respond(r) ==
  /\ run[r].pc = "done"
  /\ run' = [run EXCEPT ![r] = IdleRun]
  /\ UNCHANGED <<env, cookie, db, writes, faults>>

Next ==
  \/ \E r \in Runs, form \in SaveAllForms : saveAllAction(r, form)
  \/ \E r \in Runs, rejected \in BOOLEAN : saveAllUpsertVideos(r, rejected)
  \/ \E r \in Runs, rejected \in BOOLEAN : saveAllCoreSummary(r, rejected)
  \/ \E r \in Runs, coerce \in BOOLEAN, rejected \in BOOLEAN :
       saveAllStructureCore(r, coerce, rejected)
  \/ \E r \in Runs, rejected \in BOOLEAN : saveAllStructureDetail(r, rejected)
  \/ \E r \in Runs, rejected \in BOOLEAN : saveAllObservationNotes(r, rejected)
  \/ \E r \in Runs, form \in VideoForms, rejected \in BOOLEAN :
       createVideoAction(r, form, rejected)
  \/ \E r \in Runs, form \in CoreSummaryForms, rejected \in BOOLEAN :
       createCoreSummaryAction(r, form, rejected)
  \/ \E r \in Runs, form \in StructureCoreForms, rejected \in BOOLEAN :
       createStructureCoreAction(r, form, rejected)
  \/ \E r \in Runs, form \in StructureDetailForms, rejected \in BOOLEAN :
       createStructureDetailAction(r, form, rejected)
  \/ \E r \in Runs, form \in ObservationNoteForms, rejected \in BOOLEAN :
       createObservationNoteAction(r, form, rejected)
  \/ \E r \in Runs : Respond(r)

Spec == Init /\ [][Next]_vars

\* the write handlers together with login and logout; the browser may hold
\* a cookie left from an earlier deployment when no password is configured
InitAuth ==
  /\ env \in [ADMIN_PASSWORD : {"", "pw"}, NODE_ENV : {"production"},
              notesUnique : {FALSE}]
  /\ cookie \in {"", "1"}
  /\ env.ADMIN_PASSWORD # "" => cookie = ""
  /\ db = EmptyDb
  /\ run = [r \in OneRun |-> IdleRun]
  /\ writes = 0
  /\ faults = 0

NextAuth ==
  \/ Next
  \/ \E r \in Runs, password \in Passwords : loginAction(r, password)
  \/ \E r \in Runs : logoutAction(r)

SpecAuth == InitAuth /\ [][NextAuth]_vars

\* two submissions for one identifier, different in every stored field
RaceForms ==
  { BulkForm(TxtA, Text(<<" ">> \o IdX), <<TxtA, TxtA, TxtBlank>>),
    BulkForm(TxtB, Link(<<"youtu", "be">>, <<IdX>>, Null),
             <<TxtPaddedA, TxtEmpty, TxtLowerA>>) }

\* two saveAllAction requests that may be in flight at the same time
InitRace ==
  /\ env \in [ADMIN_PASSWORD : {"pw"}, NODE_ENV : {"production"},
              notesUnique : BOOLEAN]
  /\ cookie = "1"
  /\ db = EmptyDb
  /\ run = [r \in TwoRuns |-> IdleRun]
  /\ writes = 0
  /\ faults = 0

NextRace ==
  \/ \E r \in Runs, form \in RaceForms : saveAllAction(r, form)
  \/ \E r \in Runs, rejected \in BOOLEAN : saveAllUpsertVideos(r, rejected)
  \/ \E r \in Runs, rejected \in BOOLEAN : saveAllCoreSummary(r, rejected)
  \/ \E r \in Runs, coerce \in BOOLEAN, rejected \in BOOLEAN :
       saveAllStructureCore(r, coerce, rejected)
  \/ \E r \in Runs, rejected \in BOOLEAN : saveAllStructureDetail(r, rejected)
  \/ \E r \in Runs, rejected \in BOOLEAN : saveAllObservationNotes(r, rejected)
  \/ \E r \in Runs : Respond(r)

SpecRace == InitRace /\ [][NextRace]_vars

(* ------------------------------ listing -------------------------------- *)

Undefined == <<"<undefined>">>

ListLimit == 50

FacetKeys == <<"pvf", "vmc", "tone">>

FacetColumns ==
  <<"product_value_focus", "visual_main_character", "emotional_tone">>

getParam(sp, key) ==
  LET v == sp[key]
  IN  IF v = <<>> THEN Undefined
      ELSE LET trimmed == Trim(v[1])
           IN  IF Len(trimmed) > 0 THEN trimmed ELSE Undefined

RECURSIVE Dedup(_, _)
Dedup(values, seen) ==
  IF values = <<>> THEN <<>>
  ELSE IF Head(values) \in seen THEN Dedup(Tail(values), seen)
  ELSE <<Head(values)>> \o Dedup(Tail(values), seen \cup {Head(values)})

uniqNonEmpty(values) ==
  Dedup(SelectSeq(values, LAMBDA v : v # Null /\ v # <<>> /\ Len(Trim(v)) > 0),
        {})

hasNull_CountsBlank(values) ==
  \E i \in 1..Len(values) : values[i] = Null \/ Len(Trim(values[i])) = 0

hasNull(values) == \E i \in 1..Len(values) : values[i] = Null

FilterFor_NoSentinel(column, value) ==
  [column |-> column, op |-> "eq", value |-> value]

\* q.is(column, null) for the sentinel, q.eq(column, value) otherwise
FilterFor(column, value) ==
  IF value = NULL_SENTINEL
  THEN [column |-> column, op |-> "is", value |-> Null]
  ELSE [column |-> column, op |-> "eq", value |-> value]

RECURSIVE Chained(_, _)
Chained(params, i) ==
  IF i > Len(FacetKeys) THEN <<>>
  ELSE (IF params[i] # Undefined
        THEN <<FilterFor(FacetColumns[i], params[i])>> ELSE <<>>)
       \o Chained(params, i + 1)

BuildQuery_AlwaysOptional(pvf, vmc, tone) ==
  [inner |-> FALSE,
   filters |-> Chained(<<pvf, vmc, tone>>, 1),
   limit |-> ListLimit]

\* the query Home builds from the three parameters
BuildQuery(pvf, vmc, tone) ==
  LET hasFilter == pvf # Undefined \/ vmc # Undefined \/ tone # Undefined
  IN  [inner |-> hasFilter,
       filters |-> Chained(<<pvf, vmc, tone>>, 1),
       limit |-> ListLimit]

\* a predicate of the query on one row of the embedded table
Matches(row, f) ==
  IF f.op = "is" THEN row[f.column] = Null
  ELSE row[f.column] # Null /\ row[f.column] = f.value

\* rows ordered by created_at descending
OrderDesc(rows) ==
  LET n == Len(rows)
      \* how many rows come before row i
      before == SubSeq([i \in 1..n |->
                          Cardinality({ j \in 1..n :
                            \/ rows[j].created_at > rows[i].created_at
                            \/ (rows[j].created_at = rows[i].created_at /\ j < i) })],
                       1, n)
  IN  [p \in 1..n |-> rows[CHOOSE i \in 1..n : before[i] = p - 1]]

Limit_Unbounded(rows, n) == rows

Limit(rows, n) == SubSeq(rows, 1, IF Len(rows) < n THEN Len(rows) ELSE n)

\* an embedded relation as the backend hands it over: a list of rows, or for
\* a relation it takes to be to-one the row itself (null when there is none)
Nested(rows, shape) ==
  IF shape = "list" THEN [shape |-> "list", items |-> rows]
  ELSE IF rows = <<>> THEN [shape |-> "null", items |-> <<>>]
  ELSE [shape |-> "object", items |-> <<rows[1]>>]

\* the rows the backend returns for the listing query
ExecListing(dbv, q, shape) ==
  LET Embedded(v) ==
        SelectSeq(dbv.video_structure_core,
                  LAMBDA row : /\ row.video_id = v.id
                               /\ \A i \in 1..Len(q.filters) : Matches(row, q.filters[i]))
      kept == SelectSeq(dbv.videos, LAMBDA v : q.inner => Embedded(v) # <<>>)
      page == Limit(OrderDesc(kept), q.limit)
  IN  [i \in 1..Len(page) |->
         [id |-> page[i].id,
          title |-> page[i].title,
          video_core_summary |->
            Nested(RowsOf(dbv.video_core_summary, page[i].id), shape),
          video_structure_core |-> Nested(Embedded(page[i]), shape)]]

\* `nested?.[0]?.[column] ?? null`
FirstField(nested, column) ==
  IF nested.shape = "list" /\ Len(nested.items) > 0
  THEN nested.items[1][column] ELSE Null

\* the props of one VideoCard
Card(v) ==
  [id |-> v.id,
   title |-> v.title,
   hitokotoSummary |-> FirstField(v.video_core_summary, "hitokoto_summary"),
   productValueFocus |-> FirstField(v.video_structure_core, "product_value_focus"),
   visualMainCharacter |-> FirstField(v.video_structure_core, "visual_main_character"),
   emotionalTone |-> FirstField(v.video_structure_core, "emotional_tone")]

OptionSample == 500

OptionsOf(list, column) ==
  LET values == [i \in 1..Len(list) |-> list[i][column]]
  IN  [values |-> uniqNonEmpty(values), hasNull |-> hasNull(values)]

\* the public listing page
Home(r, sp, shape, optRejected, rejected) ==
  LET pvf == getParam(sp, "pvf")
      vmc == getParam(sp, "vmc")
      tone == getParam(sp, "tone")
      list == IF optRejected THEN <<>>
              ELSE Limit(db.video_structure_core, OptionSample)
      q == BuildQuery(pvf, vmc, tone)
      data == ExecListing(db, q, shape)
      started == [IdleRun EXCEPT !.handler = "Home", !.sp = sp, !.pre = db,
                                 !.query = q,
                                 !.calls = <<Call("video_structure_core", ~optRejected),
                                             Call("videos", ~rejected)>>]
      page == [NoResponse EXCEPT
                 !.optErr = optRejected,
                 !.options = [pvf |-> OptionsOf(list, "product_value_focus"),
                              vmc |-> OptionsOf(list, "visual_main_character"),
                              tone |-> OptionsOf(list, "emotional_tone")]]
  IN  /\ \A q2 \in Runs : run[q2].pc = "idle"
      /\ faults + (IF optRejected THEN 1 ELSE 0) + (IF rejected THEN 1 ELSE 0)
           <= MaxFaults
      /\ faults' = faults + (IF optRejected THEN 1 ELSE 0)
                     + (IF rejected THEN 1 ELSE 0)
      /\ IF rejected
         THEN Done(r, started, [NoResponse EXCEPT !.kind = "listing_error"])
         ELSE Done(r, started,
                   [page EXCEPT !.kind = "listing",
                                !.rows = [i \in 1..Len(data) |-> Card(data[i])]])
      /\ UNCHANGED <<env, cookie, db, writes>>

\* the facet rows a write path can have stored
StoredTriples ==
  { <<TxtA, Null, TxtLowerA>>, <<TxtA, TxtA, Null>>, <<Null, Null, Null>>,
    <<TxtLowerA, TxtA, TxtA>> }

NoTriple == <<>>

IdSuffix == <<"1", "2", "3", "4", "5", "6", "7", "8", "9">>

\* a database of n Entities, the i-th with the FacetTriple row pick[i] (or
\* none) and, when i is odd, a Summary row
RECURSIVE FacetRows(_, _)
FacetRows(pick, i) ==
  IF i > Len(pick) THEN <<>>
  ELSE (IF pick[i] = NoTriple THEN <<>>
        ELSE <<[video_id |-> i, product_value_focus |-> pick[i][1],
                visual_main_character |-> pick[i][2],
                emotional_tone |-> pick[i][3]]>>)
       \o FacetRows(pick, i + 1)

RECURSIVE SummaryRows(_, _)
SummaryRows(n, i) ==
  IF i > n THEN <<>>
  ELSE (IF i % 2 = 1
        THEN <<[video_id |-> i, hitokoto_summary |-> <<"s", IdSuffix[i]>>]>>
        ELSE <<>>)
       \o SummaryRows(n, i + 1)

ListingDb(pick) ==
  [EmptyDb EXCEPT
     !.videos =
       [i \in 1..Len(pick) |->
          [id |-> i, youtube_id |-> [IdX EXCEPT ![IdLen] = IdSuffix[i]],
           title |-> <<"t", IdSuffix[i]>>, channel_name |-> Null,
           thumbnail_url |-> Null, published_year |-> Null, created_at |-> i]],
     !.video_core_summary = SummaryRows(Len(pick), 1),
     !.video_structure_core = FacetRows(pick, 1)]

ListingDbs ==
  { ListingDb(pick) :
      pick \in UNION { [1..n -> StoredTriples \cup {NoTriple}] : n \in 0..MaxVideos } }

SearchParamsSet ==
  [pvf : {<<>>, <<TxtPaddedA>>, <<NULL_SENTINEL>>},
   vmc : {<<>>, <<TxtBlank>>, <<TxtA, TxtLowerA>>},
   tone : {<<>>, <<TxtLowerA>>, <<TxtA>>, <<NULL_SENTINEL>>}]

InitHome ==
  /\ env = [ADMIN_PASSWORD |-> "pw", NODE_ENV |-> "production",
            notesUnique |-> FALSE]
  /\ cookie = ""
  /\ db \in ListingDbs
  /\ run = [r \in OneRun |-> IdleRun]
  /\ writes = 0
  /\ faults = 0

NextHome ==
  \/ \E r \in Runs, sp \in SearchParamsSet, shape \in {"list", "object"},
        optRejected \in BOOLEAN, rejected \in BOOLEAN :
       Home(r, sp, shape, optRejected, rejected)
  \/ \E r \in Runs : Respond(r)

SpecHome == InitHome /\ [][NextHome]_vars

\* facet rows as any writer of the table may have left them: padded, empty
\* and whitespace-only texts next to nulls
RawTriples ==
  { <<TxtPaddedA, TxtEmpty, Null>>, <<TxtA, TxtBlank, TxtA>>,
    <<Null, TxtA, TxtEmpty>>, <<TxtLowerA, Null, TxtBlank>> }

SampleDbs ==
  { ListingDb(pick) : pick \in UNION { [1..n -> RawTriples] : n \in 0..MaxSample } }

InitOptions ==
  /\ env = [ADMIN_PASSWORD |-> "pw", NODE_ENV |-> "production",
            notesUnique |-> FALSE]
  /\ cookie = ""
  /\ db \in SampleDbs
  /\ run = [r \in OneRun |-> IdleRun]
  /\ writes = 0
  /\ faults = 0

NextOptions ==
  \/ \E r \in Runs, shape \in {"list", "object"},
        optRejected \in BOOLEAN, rejected \in BOOLEAN :
       Home(r, EmptySearchParams, shape, optRejected, rejected)
  \/ \E r \in Runs : Respond(r)

SpecOptions == InitOptions /\ [][NextOptions]_vars

(* ----------------------------- detail page ----------------------------- *)

\* elements of stored bullet lists
BulletItems ==
  { JsStr(TxtA), JsStr(<<" ", "B", " ">>), JsStr(TxtEmpty), JsStr(TxtBlank),
    JsNum(TxtOne) }

BulletLists ==
  { JsArr(items) : items \in UNION { [1..n -> BulletItems] : n \in 0..MaxItems } }

\* texts that are no JSON array: plain, blank, scalars, an object, broken
BulletTexts ==
  { TxtEmpty, TxtBlank, TxtA, TxtPaddedA, <<"A", "\n", "B">>,
    <<"1", "2", "3">>, <<" ", "0">>, <<"0", "1">>, TxtTrue, TxtNull,
    <<"\"", "x", "\"">>, <<"{", "}">>, <<"[", "A", "]">>,
    <<"[", "\"", "A", "\"", ",", "]">>, <<"[", "\"", "A", "\"">>,
    <<"[", " ", "\"", "A", "\"", " ", ",", "1", " ", "]", "\n">> }

BulletInputs ==
  BulletLists
  \cup { JsStr(JSONStringify(list)) : list \in BulletLists }
  \cup { JsStr(text) : text \in BulletTexts }
  \cup { JsNull, JsUndefined, JsNum(<<"0">>), JsNum(TxtOne), JsBool(TxtTrue),
         JsBool(TxtFalse), JsObj }

InitBullets ==
  /\ env = [ADMIN_PASSWORD |-> "pw", NODE_ENV |-> "production",
            notesUnique |-> FALSE]
  /\ cookie = ""
  /\ db = EmptyDb
  /\ run \in [OneRun -> { [IdleRun EXCEPT !.arg = v] : v \in BulletInputs }]
  /\ writes = 0
  /\ faults = 0

\* normalizeBullets applied to the value at hand
ApplyNormalizeBullets(r) ==
  /\ run[r].pc = "idle"
  /\ Done(r, [run[r] EXCEPT !.handler = "normalizeBullets"],
          [NoResponse EXCEPT !.kind = "value",
                             !.value = normalizeBullets(run[r].arg)])
  /\ UNCHANGED <<env, cookie, db, writes, faults>>

NextBullets ==
  \/ \E r \in Runs : ApplyNormalizeBullets(r)
  \/ \E r \in Runs : Respond(r)

SpecBullets == InitBullets /\ [][NextBullets]_vars

\* `null`, where a row is expected
NoRow == [none |-> TRUE]

normalizeText(v) == IF v = Null THEN Null ELSE OrNull(Trim(v))

pickFirst_FirstKey(obj, keys) ==
  IF keys = <<>> \/ Head(keys) \notin DOMAIN obj THEN Null ELSE obj[Head(keys)]

RECURSIVE pickFirst(_, _)
pickFirst(obj, keys) ==
  IF keys = <<>> THEN Null
  ELSE IF Head(keys) \notin DOMAIN obj THEN pickFirst(obj, Tail(keys))
  ELSE IF obj[Head(keys)] = Null THEN pickFirst(obj, Tail(keys))
  ELSE IF Trim(obj[Head(keys)]) = <<>> THEN pickFirst(obj, Tail(keys))
  ELSE obj[Head(keys)]

RECURSIVE pickFirstArray(_, _)
pickFirstArray(obj, keys) ==
  IF keys = <<>> THEN JsArr(<<>>)
  ELSE IF Head(keys) \notin DOMAIN obj THEN pickFirstArray(obj, Tail(keys))
  ELSE LET v == obj[Head(keys)]
       IN  IF v.t \in {"undefined", "null"} THEN pickFirstArray(obj, Tail(keys))
           ELSE IF v.t = "array" THEN v
           ELSE IF v.t = "string" /\ Len(Trim(v.s)) > 0 THEN v
           ELSE pickFirstArray(obj, Tail(keys))

asArray_ListsOnly(v) == IF v.shape = "list" THEN v.items ELSE <<>>

asArray(v) ==
  IF v.shape = "null" THEN <<>>
  ELSE IF v.shape = "list" THEN v.items
  ELSE <<v.items[1]>>

\* `list[0] ?? null`
FirstOrNull(list) == IF Len(list) > 0 THEN list[1] ELSE NoRow

SortNotes_AsReturned(rows) == rows

\* rawNotes.sort((a, b) => ta - tb): stable, ascending by created_at
RECURSIVE SortNotes(_)
SortNotes(rows) ==
  IF rows = <<>> THEN <<>>
  ELSE LET m == CHOOSE i \in 1..Len(rows) :
                  \A j \in 1..Len(rows) :
                    \/ rows[i].created_at < rows[j].created_at
                    \/ (rows[i].created_at = rows[j].created_at /\ i <= j)
       IN  <<rows[m]>> \o
           SortNotes(SubSeq(rows, 1, m - 1) \o SubSeq(rows, m + 1, Len(rows)))

\* the text shown for a missing channel name or year (an em dash)
Dash == <<"-", "-">>

\* the rows the backend returns for `.eq("id", id).maybeSingle()`
ExecDetail(dbv, id, shapes) ==
  LET found == SelectSeq(dbv.videos, LAMBDA v : v.id = id)
      Project(rows, columns) ==
        [i \in 1..Len(rows) |-> [c \in columns |-> rows[i][c]]]
  IN  IF found = <<>> THEN NoRow
      ELSE [id |-> found[1].id, title |-> found[1].title,
            youtube_id |-> found[1].youtube_id,
            channel_name |-> found[1].channel_name,
            published_year |-> found[1].published_year,
            created_at |-> found[1].created_at,
            video_core_summary |->
              Nested(Project(RowsOf(dbv.video_core_summary, id),
                             {"hitokoto_summary"}), shapes.summary),
            video_structure_core |->
              Nested(Project(RowsOf(dbv.video_structure_core, id),
                             {"product_value_focus", "visual_main_character",
                              "emotional_tone"}), shapes.core),
            video_structure_detail |->
              Nested(Project(RowsOf(dbv.video_structure_detail, id),
                             {"product_value_focus_detail",
                              "visual_main_character_detail",
                              "emotional_tone_detail", "appeal_method",
                              "appeal_method_detail"}), shapes.detail),
            video_observation_notes |->
              Nested(Project(RowsOf(dbv.video_observation_notes, id),
                             {"created_at", "observation_text",
                              "observation_points"}), shapes.notes)]

\* the flat record VideoDetailPage renders from
DetailView(v) ==
  LET core == FirstOrNull(asArray(v.video_structure_core))
      detail == FirstOrNull(asArray(v.video_structure_detail))
      summary == FirstOrNull(asArray(v.video_core_summary))
      rawNotes == SortNotes(asArray(v.video_observation_notes))
      notes ==
        [i \in 1..Len(rawNotes) |->
           [key |-> <<rawNotes[i].created_at, i - 1>>,
            text |-> normalizeText(
                       pickFirst(rawNotes[i],
                                 <<"observation_text", "observationText", "note",
                                   "memo", "body", "text", "content">>)),
            bullets |-> normalizeBullets(
                          pickFirstArray(rawNotes[i],
                                         <<"observation_points",
                                           "observationPoints", "points",
                                           "bullets", "items", "list">>))]]
  IN  [id |-> v.id,
       title |-> v.title,
       youtubeId |-> IF v.youtube_id = Null THEN <<>> ELSE v.youtube_id,
       channelName |-> IF normalizeText(v.channel_name) = Null THEN Dash
                       ELSE normalizeText(v.channel_name),
       publishedYear |-> IF v.published_year \in {Null, NaN, <<"0">>} THEN Dash
                         ELSE v.published_year,
       pvf |-> normalizeText(pickFirst(core, <<"product_value_focus", "pvf",
                                               "productValueFocus">>)),
       vmc |-> normalizeText(pickFirst(core, <<"visual_main_character", "vmc",
                                               "visualMainCharacter">>)),
       tone |-> normalizeText(pickFirst(core, <<"emotional_tone", "tone",
                                                "emotionalTone">>)),
       pvfNote |-> normalizeText(
                     pickFirst(detail, <<"product_value_focus_detail",
                                         "product_value_focus_note", "pvf_note",
                                         "pvfNote">>)),
       vmcNote |-> normalizeText(
                     pickFirst(detail, <<"visual_main_character_detail",
                                         "visual_main_character_note",
                                         "vmc_note", "vmcNote">>)),
       toneNote |-> normalizeText(
                      pickFirst(detail, <<"emotional_tone_detail",
                                          "emotional_tone_note", "tone_note",
                                          "toneNote">>)),
       appealMethod |-> normalizeText(
                          pickFirst(detail, <<"appeal_method", "appealMethod",
                                              "main_appeal_method">>)),
       appealMethodNote |-> normalizeText(
                              pickFirst(detail, <<"appeal_method_detail",
                                                  "appeal_method_note",
                                                  "appealMethodNote">>)),
       hitokoto |-> IF "hitokoto_summary" \in DOMAIN summary
                    THEN normalizeText(summary.hitokoto_summary) ELSE Null,
       notes |-> SelectSeq(notes, LAMBDA n : n.text # Null \/ Len(n.bullets) > 0)]

\* the public detail page of one Entity
VideoDetailPage(r, id, shapes, rejected) ==
  LET row == ExecDetail(db, id, shapes)
      started == [IdleRun EXCEPT !.handler = "VideoDetailPage",
                                 !.video_id = id, !.pre = db]
  IN  /\ \A q \in Runs : run[q].pc = "idle"
      /\ Rejected(rejected)
      /\ (shapes.notes = "object" => Len(RowsOf(db.video_observation_notes, id)) <= 1)
      /\ IF rejected \/ row = NoRow
         THEN Done(r, started, [NoResponse EXCEPT !.kind = "detail_error"])
         ELSE Done(r, started,
                   [NoResponse EXCEPT !.kind = "detail",
                                      !.value = DetailView(row)])
      /\ UNCHANGED <<env, cookie, db, writes>>

\* the Detail rows and Notes a write path can have stored
StoredDetails ==
  { [product_value_focus_detail |-> <<"A", "d">>,
     visual_main_character_detail |-> Null, emotional_tone_detail |-> Null,
     appeal_method |-> Null, appeal_method_detail |-> Null],
    [product_value_focus_detail |-> <<"B", "d">>,
     visual_main_character_detail |-> <<"B", "v">>,
     emotional_tone_detail |-> <<"B", "e">>,
     appeal_method |-> <<"B", "m">>, appeal_method_detail |-> <<"B", "n">>] }

StoredNotes ==
  { [observation_text |-> <<"A", "o">>,
     observation_points |-> JsArr(<<JsStr(TxtA), JsStr(TxtB)>>), created_at |-> 3],
    [observation_text |-> <<"B", "o">>, observation_points |-> JsNull,
     created_at |-> 1],
    [observation_text |-> <<"C", "o">>,
     observation_points |-> JsArr(<<JsStr(TxtLowerA)>>), created_at |-> 2] }

\* two Entities: the first with the chosen Summary, FacetTriple, Detail and
\* Notes, the second with no dependent row at all
DetailDb(summary, triple, detail, notes) ==
  [ListingDb(<<triple, NoTriple>>) EXCEPT
     !.video_core_summary =
       IF summary THEN <<[video_id |-> 1, hitokoto_summary |-> <<"A", "s">>]>>
       ELSE <<>>,
     !.video_structure_detail =
       IF detail = NoRow THEN <<>>
       ELSE <<[c \in DOMAIN detail \cup {"video_id"} |->
                 IF c = "video_id" THEN 1 ELSE detail[c]]>>,
     !.video_observation_notes =
       [i \in 1..Len(notes) |->
          [c \in DOMAIN notes[i] \cup {"video_id", "id"} |->
             IF c = "video_id" THEN 1 ELSE IF c = "id" THEN i ELSE notes[i][c]]]]

DetailDbs ==
  { DetailDb(summary, triple, detail, notes) :
      summary \in BOOLEAN,
      triple \in {NoTriple, <<TxtA, Null, TxtLowerA>>, <<Null, Null, Null>>},
      detail \in StoredDetails \cup {NoRow},
      notes \in UNION { [1..n -> StoredNotes] : n \in 0..MaxNotes } }

Shapes == [summary : {"list", "object"}, core : {"list", "object"},
           detail : {"list", "object"}, notes : {"list", "object"}]

InitDetail ==
  /\ env = [ADMIN_PASSWORD |-> "pw", NODE_ENV |-> "production",
            notesUnique |-> FALSE]
  /\ cookie = ""
  /\ db \in DetailDbs
  /\ run = [r \in OneRun |-> IdleRun]
  /\ writes = 0
  /\ faults = 0

NextDetail ==
  \/ \E r \in Runs, id \in 1..3, shapes \in Shapes, rejected \in BOOLEAN :
       VideoDetailPage(r, id, shapes, rejected)
  \/ \E r \in Runs : Respond(r)

SpecDetail == InitDetail /\ [][NextDetail]_vars

(* ------------------------ identifier extraction ------------------------ *)

\* identifiers: two of the canonical shape, one too short, one too long, one
\* with a character outside the class
IdLong == IdX \o <<"0">>

IdDotted == [IdX EXCEPT ![5] = "."]

CandidateIds == {IdX, IdY, IdShort, IdLong, IdDotted}

YouTubeCom == <<"youtube", "com">>

\* each identifier in each input form, on YouTube hosts and on another host
ExtractInputs ==
  UNION { { Text(id),
            Text(<<" ", "\t">> \o id \o <<"\n">>),
            Link(<<"youtu", "be">>, <<id>>, Null),
            Link(<<"www", "youtu", "be">>, <<id, <<"x">>>>, Null),
            Link(<<"youtu", "be">>, <<<<"shorts">>, id>>, Null),
            Link(<<"www">> \o YouTubeCom, <<<<"watch">>>>, id),
            Link(YouTubeCom, <<<<"watch">>>>, id),
            Link(<<"m">> \o YouTubeCom, <<<<"watch">>>>, id),
            Link(<<"www">> \o YouTubeCom, <<<<"shorts">>, id>>, Null),
            Link(YouTubeCom, <<<<"embed">>, id>>, Null),
            Link(<<"www">> \o YouTubeCom, <<<<"embed">>, id>>, IdShort),
            Link(<<"www">> \o YouTubeCom, <<<<"shorts">>>>, Null),
            Link(<<"example", "com">>, <<>>, id),
            Link(<<"example", "com">>, <<<<"embed">>, id>>, Null),
            Link(<<"example", "com">>, <<id>>, Null) } : id \in CandidateIds }
  \cup { Text(TxtEmpty), Text(TxtBlank), Text(<<"x">>) }
  \cup BadUrls

InitExtract ==
  /\ env = [ADMIN_PASSWORD |-> "pw", NODE_ENV |-> "production",
            notesUnique |-> FALSE]
  /\ cookie = ""
  /\ db = EmptyDb
  /\ run \in [OneRun -> { [IdleRun EXCEPT !.form.youtube_url = input] :
                          input \in ExtractInputs }]
  /\ writes = 0
  /\ faults = 0

\* extractYouTubeId applied to the input at hand
ApplyExtractYouTubeId(r) ==
  /\ run[r].pc = "idle"
  /\ Done(r, [run[r] EXCEPT !.handler = "extractYouTubeId"],
          [NoResponse EXCEPT !.kind = "value",
                             !.value = extractYouTubeId(run[r].form.youtube_url)])
  /\ UNCHANGED <<env, cookie, db, writes, faults>>

NextExtract ==
  \/ \E r \in Runs : ApplyExtractYouTubeId(r)
  \/ \E r \in Runs : Respond(r)

SpecExtract == InitExtract /\ [][NextExtract]_vars

\* a catalog around the size of one page of the listing
MaxOver == 1

Digits == <<"0", "1", "2", "3", "4", "5", "6", "7", "8", "9">>

\* n Entities stored in an order that is not their order of creation, each
\* with a FacetTriple row; one in `every` has the tone A, the others none
CatalogDb(n, turn, every) ==
  [EmptyDb EXCEPT
     !.videos =
       [i \in 1..n |->
          [id |-> i,
           youtube_id |-> [IdX EXCEPT ![IdLen - 1] = Digits[(i \div 10) + 1],
                                      ![IdLen] = Digits[(i % 10) + 1]],
           title |-> <<"t">>, channel_name |-> Null,
           thumbnail_url |-> Null, published_year |-> Null,
           created_at |-> ((i + turn) % n) + 1]],
     !.video_structure_core =
       [i \in 1..n |->
          [video_id |-> i, product_value_focus |-> TxtA,
           visual_main_character |-> TxtA,
           emotional_tone |-> IF i % every = 0 THEN TxtA ELSE Null]]]

CatalogDbs ==
  { CatalogDb(n, turn, every) :
      n \in ListLimit..(ListLimit + MaxOver), turn \in {7}, every \in {1, 2} }

CatalogParams ==
  [pvf : {<<>>, <<TxtPaddedA>>},
   vmc : {<<>>, <<TxtA, TxtLowerA>>},
   tone : {<<>>, <<TxtA>>, <<NULL_SENTINEL>>}]

InitCatalog ==
  /\ env = [ADMIN_PASSWORD |-> "pw", NODE_ENV |-> "production",
            notesUnique |-> FALSE]
  /\ cookie = ""
  /\ db \in CatalogDbs
  /\ run = [r \in OneRun |-> IdleRun]
  /\ writes = 0
  /\ faults = 0

NextCatalog ==
  \/ \E r \in Runs, sp \in CatalogParams, shape \in {"list", "object"},
        optRejected \in BOOLEAN, rejected \in BOOLEAN :
       Home(r, sp, shape, optRejected, rejected)
  \/ \E r \in Runs : Respond(r)

SpecCatalog == InitCatalog /\ [][NextCatalog]_vars

\* pickFirst on its own: objects with some of three keys, and key lists
MaxKeys == 2

PickKeys == {"a", "b", "c"}

PickValues == {Null, TxtEmpty, TxtBlank, TxtA, TxtPaddedA}

PickObjects ==
  {NoRow} \cup UNION { [present -> PickValues] : present \in SUBSET PickKeys }

KeyLists ==
  { keys \in UNION { [1..n -> PickKeys] : n \in 0..MaxKeys } :
      \A i, j \in 1..Len(keys) : keys[i] = keys[j] => i = j }

PickInputs == [obj : PickObjects, keys : KeyLists]

InitPick ==
  /\ env = [ADMIN_PASSWORD |-> "pw", NODE_ENV |-> "production",
            notesUnique |-> FALSE]
  /\ cookie = ""
  /\ db = EmptyDb
  /\ run \in [OneRun -> { [IdleRun EXCEPT !.arg = v] : v \in PickInputs }]
  /\ writes = 0
  /\ faults = 0

\* pickFirst applied to the object and the keys at hand
ApplyPickFirst(r) ==
  /\ run[r].pc = "idle"
  /\ run[r].arg \in PickInputs
  /\ Done(r, [run[r] EXCEPT !.handler = "pickFirst"],
          [NoResponse EXCEPT !.kind = "value",
                             !.value = pickFirst(run[r].arg.obj, run[r].arg.keys)])
  /\ UNCHANGED <<env, cookie, db, writes, faults>>

NextPick ==
  \/ \E r \in Runs : ApplyPickFirst(r)
  \/ \E r \in Runs : Respond(r)

SpecPick == InitPick /\ [][NextPick]_vars

\* the bullets of a Note from the form to the detail page
MaxRaw == 4

RawCharacters == {"a", "b", " ", "\n"}

RawPoints == UNION { [1..n -> RawCharacters] : n \in 0..MaxRaw }

\* a list of texts as a JSON array of strings
StringArray(list) == JsArr([i \in 1..Len(list) |-> JsStr(list[i])])

\* the column as the storage client returns it: the array written, or null
\* when the payload had null
ReadBack(points) ==
  IF Len(points) > 0 THEN StringArray(PointsOrNull(points)) ELSE JsNull

BulletKeys ==
  <<"observation_points", "observationPoints", "points", "bullets", "items",
    "list">>

InitRoundTrip ==
  /\ env = [ADMIN_PASSWORD |-> "pw", NODE_ENV |-> "production",
            notesUnique |-> FALSE]
  /\ cookie = ""
  /\ db = EmptyDb
  /\ run \in [OneRun -> { [IdleRun EXCEPT !.form.observation_points = raw] :
                          raw \in RawPoints }]
  /\ writes = 0
  /\ faults = 0

\* the observation_points of the form taken through the write path of
\* saveAllAction and the read path of the detail page, and the bullets read
\* normalized once more
ApplyBulletRoundTrip(r) ==
  LET stored == ReadBack(ParsePoints(run[r].form.observation_points))
      note == [created_at |-> JsNum(<<"1">>),
               observation_text |-> JsStr(TxtA),
               observation_points |-> stored]
      bullets == normalizeBullets(pickFirstArray(note, BulletKeys))
  IN  /\ run[r].pc = "idle"
      /\ Done(r, [run[r] EXCEPT !.handler = "roundTrip"],
              [NoResponse EXCEPT
                 !.kind = "value",
                 !.value = [stored |-> stored, bullets |-> bullets,
                            again |-> normalizeBullets(StringArray(bullets))]])
      /\ UNCHANGED <<env, cookie, db, writes, faults>>

NextRoundTrip ==
  \/ \E r \in Runs : ApplyBulletRoundTrip(r)
  \/ \E r \in Runs : Respond(r)

SpecRoundTrip == InitRoundTrip /\ [][NextRoundTrip]_vars

(* ------------------------------ admin page ------------------------------ *)

RecentLimit == 10

OptionFetch == 2000

RECURSIVE LessSeq(_, _)
LessSeq(a, b) ==
  IF a = <<>> THEN b # <<>>
  ELSE IF b = <<>> THEN FALSE
  ELSE IF Head(a) # Head(b) THEN Head(a) < Head(b)
  ELSE LessSeq(Tail(a), Tail(b))

\* a.localeCompare(b, "ja") < 0 for texts of Latin letters: by letters
\* first, lower case before upper case among equal letters; a character
\* that is no letter counts as 0
localeCompareLess(a, b) ==
  LET small == <<"a","b","c","d","e","f","g","h","i","j","k","l","m",
                 "n","o","p","q","r","s","t","u","v","w","x","y","z">>
      capital == <<"A","B","C","D","E","F","G","H","I","J","K","L","M",
                   "N","O","P","Q","R","S","T","U","V","W","X","Y","Z">>
      Letter(c) ==
        IF \E i \in 1..Len(small) : c \in {small[i], capital[i]}
        THEN CHOOSE i \in 1..Len(small) : c \in {small[i], capital[i]}
        ELSE 0
      Letters(t) == [i \in 1..Len(t) |-> Letter(t[i])]
      CaseRanks(t) == [i \in 1..Len(t) |-> IF t[i] \in Upper THEN 1 ELSE 0]
  IN  IF Letters(a) = Letters(b) THEN LessSeq(CaseRanks(a), CaseRanks(b))
      ELSE LessSeq(Letters(a), Letters(b))

\* Array.prototype.sort with that comparison: stable
RECURSIVE SortTexts(_)
SortTexts(texts) ==
  IF texts = <<>> THEN <<>>
  ELSE LET m == CHOOSE i \in 1..Len(texts) :
                  /\ \A j \in 1..Len(texts) : ~localeCompareLess(texts[j], texts[i])
                  /\ \A j \in 1..(i - 1) : localeCompareLess(texts[i], texts[j])
       IN  <<texts[m]>> \o
           SortTexts(SubSeq(texts, 1, m - 1) \o SubSeq(texts, m + 1, Len(texts)))

\* values.map(v => (v ?? "").trim()).filter(v => v.length > 0), each once
uniqStrings(values) ==
  Dedup(SelectSeq([i \in 1..Len(values) |->
                     IF values[i] = Null THEN <<>> ELSE Trim(values[i])],
                  LAMBDA v : Len(v) > 0),
        {})

mergeOptions(base, fromDb) ==
  base \o SortTexts(SelectSeq(fromDb,
                              LAMBDA v : \A i \in 1..Len(base) : base[i] # v))

ColumnOf(rows, column) == [i \in 1..Len(rows) |-> rows[i][column]]

\* what the two option queries of the admin page give, with the labels of
\* the errors written to the server log
fetchAdminTagOptions(coreRejected, detailRejected) ==
  LET core == IF coreRejected THEN <<>>
              ELSE Limit(db.video_structure_core, OptionFetch)
      detail == IF detailRejected THEN <<>>
                ELSE Limit(db.video_structure_detail, OptionFetch)
  IN  [pvfDb |-> uniqStrings(ColumnOf(core, "product_value_focus")),
       vmcDb |-> uniqStrings(ColumnOf(core, "visual_main_character")),
       toneDb |-> uniqStrings(ColumnOf(core, "emotional_tone")),
       appealDb |-> uniqStrings(ColumnOf(detail, "appeal_method")),
       logged |-> (IF coreRejected THEN {"fetchAdminTagOptions:core"} ELSE {})
                  \cup (IF detailRejected THEN {"fetchAdminTagOptions:detail"}
                        ELSE {})]

\* the preset tags of the picker, the same for each field here
BaseOptions == { <<>>, <<TxtB>> }

\* the admin page: a notice without ADMIN_PASSWORD, the login form without
\* the cookie, else the recent Entities and the tag options of the forms
AdminPage(r, base, recentRejected, coreRejected, detailRejected) ==
  LET started == [IdleRun EXCEPT !.handler = "AdminPage", !.pre = db]
      reads == [started EXCEPT
                  !.calls = <<Call("videos", ~recentRejected),
                              Call("video_structure_core", ~coreRejected),
                              Call("video_structure_detail", ~detailRejected)>>]
      fetched == fetchAdminTagOptions(coreRejected, detailRejected)
      n == (IF recentRejected THEN 1 ELSE 0) + (IF coreRejected THEN 1 ELSE 0)
             + (IF detailRejected THEN 1 ELSE 0)
  IN  /\ \A q \in Runs : run[q].pc = "idle"
      /\ IF env.ADMIN_PASSWORD = ""
         THEN /\ n = 0
              /\ Done(r, started, [NoResponse EXCEPT !.kind = "setup"])
         ELSE IF ~isAuthed
         THEN /\ n = 0
              /\ Done(r, started, ToLogin)
         ELSE /\ faults + n <= MaxFaults
              /\ Done(r, reads,
                      [NoResponse EXCEPT
                         !.kind = "admin",
                         !.err = IF recentRejected THEN "videos" ELSE "none",
                         !.rows = IF recentRejected THEN <<>>
                                  ELSE Limit(OrderDesc(db.videos), RecentLimit),
                         !.options =
                           [pvf |-> [values |-> mergeOptions(base, fetched.pvfDb),
                                     hasNull |-> FALSE],
                            vmc |-> [values |-> mergeOptions(base, fetched.vmcDb),
                                     hasNull |-> FALSE],
                            tone |-> [values |-> mergeOptions(base, fetched.toneDb),
                                      hasNull |-> FALSE]],
                         !.value = [appeal |-> mergeOptions(base, fetched.appealDb),
                                    logged |-> fetched.logged]])
      /\ faults' = faults + n
      /\ UNCHANGED <<env, cookie, db, writes>>

InitAdmin ==
  /\ env \in [ADMIN_PASSWORD : {"", "pw"}, NODE_ENV : {"production"},
              notesUnique : {FALSE}]
  /\ cookie \in {"", "1"}
  /\ cookie = "1" => env.ADMIN_PASSWORD # ""
  /\ db \in SampleDbs
  /\ run = [r \in OneRun |-> IdleRun]
  /\ writes = 0
  /\ faults = 0

NextAdmin ==
  \/ \E r \in Runs, base \in BaseOptions, recentRejected \in BOOLEAN,
        coreRejected \in BOOLEAN, detailRejected \in BOOLEAN :
       AdminPage(r, base, recentRejected, coreRejected, detailRejected)
  \/ \E r \in Runs : Respond(r)

SpecAdmin == InitAdmin /\ [][NextAdmin]_vars

(* ---------------------------- properties -------------------------------- *)

StepTables ==
  <<"video_core_summary", "video_structure_core", "video_structure_detail",
    "video_observation_notes">>

CallOrder == <<"videos">> \o StepTables

IsSaveAll(r) == run[r].handler = "saveAllAction"

MissingRequired(form) == \E f \in RequiredFields : Trim(form[f]) = <<>>

\* C1: a bulk submission with a required field (title, hitokoto_summary,
\* product_value_focus_detail, observation_text) empty after trimming ends
\* at once with the validation error, makes no storage call and leaves all
\* five tables as they were.
C1_ValidationAbortsWithoutWrite ==
  \A r \in Runs :
    (IsSaveAll(r) /\ MissingRequired(run[r].form)) =>
      /\ run[r].pc = "done"
      /\ run[r].calls = <<>>
      /\ db = run[r].pre
      /\ run[r].response.kind \in {"err", "login"}
      /\ (/\ run[r].response.kind = "err"
          /\ extractYouTubeId(run[r].form.youtube_url) # Null)
         => run[r].response = Err("required")

C1_Witness ==
  \E r \in Runs :
    /\ IsSaveAll(r)
    /\ Trim(run[r].form.observation_text) = <<>>
    /\ run[r].response = Err("required")
    /\ Len(db.videos) > 0

\* C2: when the upsert of videos fails, the bulk submission ends as a fatal
\* failure right there: the videos call is its only storage call and no
\* table has changed.
C2_EntityFailureIsFatal ==
  \A r \in Runs :
    (IsSaveAll(r) /\ Len(run[r].calls) >= 1 /\ ~run[r].calls[1].ok) =>
      /\ run[r].pc = "done"
      /\ run[r].response = Err("videos")
      /\ run[r].calls = <<Call("videos", FALSE)>>
      /\ db = run[r].pre

C2_Witness ==
  \E r \in Runs :
    /\ IsSaveAll(r)
    /\ run[r].calls = <<Call("videos", FALSE)>>
    /\ run[r].response = Err("videos")
    /\ Len(db.video_core_summary) > 0

\* C3: once the upsert of videos has succeeded, the storage calls of a bulk
\* submission are a prefix of videos, core_summary, structure_core,
\* structure_detail, observation_notes (each table once, in that order), the
\* request stands at the step after its last call, and it ends only after
\* all five calls, whichever of them failed.
C3_DependentStepsOnceInOrder ==
  \A r \in Runs :
    (IsSaveAll(r) /\ Len(run[r].calls) >= 1 /\ run[r].calls[1].ok) =>
      /\ Len(run[r].calls) <= Len(CallOrder)
      /\ \A i \in 1..Len(run[r].calls) : run[r].calls[i].table = CallOrder[i]
      /\ run[r].pc = "done" <=> Len(run[r].calls) = Len(CallOrder)
      /\ run[r].pc # "done" => run[r].pc = Label(Len(run[r].calls))

C3_Witness ==
  \E r \in Runs :
    /\ IsSaveAll(r)
    /\ run[r].pc = "done"
    /\ Len(run[r].calls) = 5
    /\ ~run[r].calls[2].ok
    /\ run[r].calls[3].ok
    /\ ~run[r].calls[5].ok

\* labels of the dependent calls that failed, in call order
RECURSIVE FailedFrom(_, _)
FailedFrom(calls, i) ==
  IF i > Len(calls) THEN <<>>
  ELSE (IF calls[i].ok THEN <<>> ELSE <<Label(i - 1)>>)
       \o FailedFrom(calls, i + 1)

\* C4: a bulk submission that got past the videos write ends as full success
\* iff no dependent call failed and as partial success otherwise, and the
\* failed-steps list is exactly the labels of the failed calls, each once, in
\* step order; a fatal outcome comes with no storage call at all or with the
\* failed videos call alone.
C4_OutcomeMatchesFailures ==
  \A r \in Runs :
    (IsSaveAll(r) /\ run[r].pc = "done") =>
      /\ run[r].response.kind \in {"login", "err", "bulk_saved", "bulk_saved_partial"}
      /\ (Len(run[r].calls) >= 1 /\ run[r].calls[1].ok) =>
           /\ run[r].response.fail = FailedFrom(run[r].calls, 2)
           /\ run[r].response.kind =
                IF \A i \in 2..Len(run[r].calls) : run[r].calls[i].ok
                THEN "bulk_saved" ELSE "bulk_saved_partial"
           /\ run[r].response.video_id = run[r].video_id
      /\ run[r].response.kind = "err" =>
           \/ run[r].calls = <<>>
           \/ run[r].calls = <<Call("videos", FALSE)>>
      /\ run[r].response.kind = "login" => run[r].calls = <<>>

C4_Witness ==
  \E r \in Runs :
    /\ IsSaveAll(r)
    /\ run[r].response.kind = "bulk_saved_partial"
    /\ Len(run[r].response.fail) = 2
    /\ run[r].response.fail[1] # "structure_detail"
    /\ run[r].calls[4].ok

\* a submission that switches on none of the development-only simulate_fail
\* payloads
Plain(form) == \A i \in 1..Len(StepLabels) : ~Simulates(form, Label(i))

\* the rows a bulk submission asks for, read off the form
SummaryOf(form, video_id) ==
  [video_id |-> video_id, hitokoto_summary |-> Trim(form.hitokoto_summary)]

FacetsOf(form, video_id) ==
  [video_id |-> video_id,
   product_value_focus |-> OrNull(Trim(form.product_value_focus)),
   visual_main_character |-> OrNull(Trim(form.visual_main_character)),
   emotional_tone |-> OrNull(Trim(form.emotional_tone))]

DetailOf(form, video_id) ==
  [video_id |-> video_id,
   product_value_focus_detail |-> Trim(form.product_value_focus_detail),
   visual_main_character_detail |->
     OrNull(Trim(form.visual_main_character_detail)),
   appeal_method |-> OrNull(Trim(form.appeal_method)),
   appeal_method_detail |-> OrNull(Trim(form.appeal_method_detail)),
   emotional_tone_detail |-> OrNull(Trim(form.emotional_tone_detail))]

NoteOf(form, video_id, created_at) ==
  [video_id |-> video_id,
   observation_text |-> Trim(form.observation_text),
   observation_points |-> PointsOrNull(ParsePoints(form.observation_points)),
   created_at |-> created_at]

ExpectedRow(i, form, video_id) ==
  CASE i = 1 -> SummaryOf(form, video_id)
    [] i = 2 -> FacetsOf(form, video_id)
    [] i = 3 -> DetailOf(form, video_id)

\* C5: every bulk submission whose Note write succeeds leaves one more Note
\* row than there was before it.
C5_NoteStepAppends ==
  \A r \in Runs :
    (/\ IsSaveAll(r)
     /\ run[r].pc = "done"
     /\ Len(run[r].calls) = 5
     /\ run[r].calls[5].ok) =>
      Len(db.video_observation_notes) =
        Len(run[r].pre.video_observation_notes) + 1

\* C6: no two videos rows carry the same youtube_id; a fully successful bulk
\* submission reuses the row its identifier already had, and afterwards the
\* Entity's one Summary, FacetTriple and Detail row hold that submission's
\* values.
C6_ResubmissionIdempotent ==
  /\ \A i, j \in 1..Len(db.videos) :
       db.videos[i].youtube_id = db.videos[j].youtube_id => i = j
  /\ \A r \in Runs :
       (/\ IsSaveAll(r)
        /\ run[r].response.kind = "bulk_saved"
        /\ Plain(run[r].form)) =>
         LET form == run[r].form
             id == run[r].response.video_id
             before == RowIndex(run[r].pre.videos, "youtube_id", run[r].youtube_id)
             now == RowIndex(db.videos, "id", id)
         IN  /\ now # 0
             /\ db.videos[now].youtube_id = run[r].youtube_id
             /\ db.videos[now].title = Trim(form.title)
             /\ before # 0 =>
                  /\ run[r].pre.videos[before].id = id
                  /\ Len(db.videos) = Len(run[r].pre.videos)
             /\ \A i \in 1..3 :
                  RowsOf(db[StepTables[i]], id) = <<ExpectedRow(i, form, id)>>

C6_Witness ==
  \E r \in Runs :
    /\ IsSaveAll(r)
    /\ run[r].response.kind = "bulk_saved"
    /\ Plain(run[r].form)
    /\ LET id == run[r].response.video_id
       IN  /\ RowsOf(run[r].pre.video_core_summary, id) # <<>>
           /\ RowsOf(run[r].pre.video_core_summary, id) #
                RowsOf(db.video_core_summary, id)
           /\ RowsOf(run[r].pre.video_structure_detail, id) #
                RowsOf(db.video_structure_detail, id)

\* C7: when exactly one dependent call of a bulk submission fails, the result
\* is partial with that step's label alone, each 1:1 table whose call
\* succeeded holds the submission's row, a succeeding Note call has added one
\* row to the Notes there were, and the table whose call failed is as it was
\* before the submission.
C7_SingleFailureFrame ==
  \A r \in Runs :
    \A k \in 1..4 :
      (/\ IsSaveAll(r)
       /\ run[r].pc = "done"
       /\ Len(run[r].calls) = 5
       /\ Plain(run[r].form)
       /\ \A i \in 1..4 : run[r].calls[i + 1].ok <=> i # k) =>
        LET form == run[r].form
            id == run[r].video_id
            notes == run[r].pre.video_observation_notes
        IN  /\ run[r].response =
                 [Ok("bulk_saved_partial", id) EXCEPT !.fail = <<Label(k)>>]
            /\ db[StepTables[k]] = run[r].pre[StepTables[k]]
            /\ \A i \in 1..3 :
                 i # k => RowsOf(db[StepTables[i]], id) = <<ExpectedRow(i, form, id)>>
            /\ k # 4 =>
                 db.video_observation_notes =
                   Append(notes, NoteOf(form, id, Len(notes) + 1))

HandlerTable(handler) ==
  CASE handler = "createCoreSummaryAction" -> "video_core_summary"
    [] handler = "createStructureCoreAction" -> "video_structure_core"
    [] handler = "createStructureDetailAction" -> "video_structure_detail"
    [] OTHER -> "none"

\* C8: Summary, FacetTriple and Detail never hold two rows of one Entity, and
\* a per-table insert for an Entity that already has its row ends in an error
\* and leaves the table as it was.
C8_OneRowPerEntity ==
  /\ \A i \in 1..3 :
       LET rows == db[StepTables[i]]
       IN  \A a, b \in 1..Len(rows) : rows[a].video_id = rows[b].video_id => a = b
  /\ \A r \in Runs :
       LET t == HandlerTable(run[r].handler)
       IN  (/\ t # "none"
            /\ Len(run[r].calls) = 1
            /\ RowIndex(run[r].pre[t], "video_id", run[r].form.video_id) # 0) =>
             /\ ~run[r].calls[1].ok
             /\ run[r].response = Err(t)
             /\ db = run[r].pre

C8_Witness ==
  \E r \in Runs :
    /\ run[r].handler = "createStructureCoreAction"
    /\ Len(run[r].calls) = 1
    /\ RowIndex(run[r].pre.video_structure_core, "video_id",
                run[r].form.video_id) # 0
    /\ run[r].response.kind = "err"

IsListing(r) ==
  /\ run[r].pc = "done"
  /\ run[r].handler = "Home"
  /\ run[r].response.kind = "listing"

\* a filter is active when the first value given for its key holds a
\* character that is not whitespace
Active(sp, key) ==
  /\ sp[key] # <<>>
  /\ \E i \in 1..Len(sp[key][1]) : sp[key][1][i] \notin Whitespace

AnyActive(sp) == \E k \in 1..Len(FacetKeys) : Active(sp, FacetKeys[k])

ListedIds(r) ==
  { run[r].response.rows[i].id : i \in 1..Len(run[r].response.rows) }

EntityIds(dbv) == { dbv.videos[i].id : i \in 1..Len(dbv.videos) }

WithFacetRow(dbv) ==
  { dbv.video_structure_core[i].video_id :
      i \in 1..Len(dbv.video_structure_core) }

\* C9: the listing query uses the required join exactly when one of pvf, vmc,
\* tone is non-empty after trimming; an Entity without a FacetTriple row is
\* listed with its three facet fields unset when no filter is active and is
\* not listed when any filter is active.
C9_JoinFormFollowsFilters ==
  \A r \in Runs :
    IsListing(r) =>
      /\ run[r].query.inner = AnyActive(run[r].sp)
      /\ Cardinality(EntityIds(run[r].pre)) <= ListLimit =>
           \A id \in EntityIds(run[r].pre) \ WithFacetRow(run[r].pre) :
             IF AnyActive(run[r].sp)
             THEN id \notin ListedIds(r)
             ELSE \E i \in 1..Len(run[r].response.rows) :
                    /\ run[r].response.rows[i].id = id
                    /\ run[r].response.rows[i].productValueFocus = Null
                    /\ run[r].response.rows[i].visualMainCharacter = Null
                    /\ run[r].response.rows[i].emotionalTone = Null

C9_Witness ==
  \E r \in Runs :
    /\ IsListing(r)
    /\ AnyActive(run[r].sp)
    /\ EntityIds(run[r].pre) \ WithFacetRow(run[r].pre) # {}
    /\ ListedIds(r) # {}

\* the Entities whose FacetTriple row has the column null (for the sentinel)
\* or equal to the value
Selected(dbv, column, value) ==
  { dbv.video_structure_core[i].video_id :
      i \in { j \in 1..Len(dbv.video_structure_core) :
                IF value = NULL_SENTINEL
                THEN dbv.video_structure_core[j][column] = Null
                ELSE dbv.video_structure_core[j][column] = value } }

\* C10: with filters active the listing holds exactly the Entities that every
\* active filter selects: for the sentinel those whose FacetTriple row has the
\* column null, for a value those whose row has exactly that value.
C10_FiltersSelectExactly ==
  \A r \in Runs :
    (IsListing(r) /\ AnyActive(run[r].sp)) =>
      LET expected ==
            { id \in EntityIds(run[r].pre) :
                \A k \in 1..Len(FacetKeys) :
                  Active(run[r].sp, FacetKeys[k]) =>
                    id \in Selected(run[r].pre, FacetColumns[k],
                                    Trim(run[r].sp[FacetKeys[k]][1])) }
      IN  Cardinality(expected) <= ListLimit => ListedIds(r) = expected

C10_Witness ==
  \E r \in Runs :
    /\ IsListing(r)
    /\ Active(run[r].sp, "pvf") /\ Active(run[r].sp, "tone")
    /\ Trim(run[r].sp.pvf[1]) = TxtA
    /\ Trim(run[r].sp.tone[1]) = NULL_SENTINEL
    /\ ListedIds(r) # {}
    /\ ListedIds(r) # WithFacetRow(run[r].pre)
    /\ \E i \in 1..Len(run[r].pre.video_structure_core) :
         run[r].pre.video_structure_core[i].product_value_focus = TxtLowerA

\* C11: no write path stores the null-sentinel token as a facet value, so
\* no FacetTriple row ever holds "__NULL__" in one of its three columns.
C11_SentinelNeverStored ==
  \A i \in 1..Len(db.video_structure_core) :
    \A k \in 1..Len(FacetColumns) :
      db.video_structure_core[i][FacetColumns[k]] # NULL_SENTINEL

\* the values one facet column has in the sampled rows
SampleOf(dbv, column) ==
  { dbv.video_structure_core[i][column] :
      i \in 1..Len(dbv.video_structure_core) }

HasOptions(r) == IsListing(r) /\ ~run[r].response.optErr

\* C12: each column's options hold every distinct non-empty trimmed value of
\* the sample exactly once and no empty or whitespace-only value; values that
\* differ only by surrounding whitespace make one option.
C12_OptionsDistinctTrimmed ==
  \A r \in Runs :
    (HasOptions(r) /\ Len(run[r].pre.video_structure_core) <= OptionSample) =>
      \A k \in 1..Len(FacetKeys) :
        LET opts == run[r].response.options[FacetKeys[k]].values
            sample == SampleOf(run[r].pre, FacetColumns[k]) \ {Null}
        IN  /\ \A i \in 1..Len(opts) : Len(Trim(opts[i])) > 0
            /\ \A i, j \in 1..Len(opts) : Trim(opts[i]) = Trim(opts[j]) => i = j
            /\ { Trim(opts[i]) : i \in 1..Len(opts) }
                 = { Trim(v) : v \in sample } \ {<<>>}

\* C13: hasNull of a column is true exactly when a sampled row holds null in
\* it; empty and whitespace-only texts do not count.
C13_HasNullIffNull ==
  \A r \in Runs :
    (HasOptions(r) /\ Len(run[r].pre.video_structure_core) <= OptionSample) =>
      \A k \in 1..Len(FacetKeys) :
        run[r].response.options[FacetKeys[k]].hasNull
          = (Null \in SampleOf(run[r].pre, FacetColumns[k]))

C13_Witness ==
  \E r \in Runs :
    /\ HasOptions(r)
    /\ SampleOf(run[r].pre, "visual_main_character") = {TxtEmpty, TxtBlank}
    /\ ~run[r].response.options.vmc.hasNull
    /\ run[r].response.options.pvf.hasNull = FALSE
    /\ run[r].response.options.tone.hasNull

DetailFields ==
  {"product_value_focus_detail", "visual_main_character_detail",
   "appeal_method", "appeal_method_detail", "emotional_tone_detail"}

\* C14: a bulk submission with title, hitokoto_summary and observation_text
\* filled in and any one of the five Detail fields filled in passes the
\* required-field validation and goes on to the write of videos.
C14_AnyDetailFieldSuffices ==
  \A r \in Runs :
    (/\ IsSaveAll(r)
     /\ run[r].response.kind # "login"
     /\ extractYouTubeId(run[r].form.youtube_url) # Null
     /\ \A f \in {"title", "hitokoto_summary", "observation_text"} :
          Trim(run[r].form[f]) # <<>>
     /\ \E f \in DetailFields : Trim(run[r].form[f]) # <<>>) =>
      run[r].response # Err("required")

Normalized(r) == run[r].pc = "done" /\ run[r].handler = "normalizeBullets"

\* a text whose JSON parse gives an array
ParsesAsArray(text) == JSONParse(text).ok /\ JSONParse(text).value.t = "array"

\* C15: for a string whose JSON parse fails or gives a non-array value,
\* normalizeBullets returns the one-element list of the trimmed string, and
\* the empty list only when the string is empty or whitespace-only.
C15_NonArrayTextIsOneBullet ==
  \A r \in Runs :
    (/\ Normalized(r)
     /\ run[r].arg.t = "string"
     /\ ~ParsesAsArray(Trim(run[r].arg.s))) =>
      run[r].response.value =
        IF Trim(run[r].arg.s) = <<>> THEN <<>> ELSE <<Trim(run[r].arg.s)>>

\* the elements as texts, trimmed, without the empty ones, in order
Kept(items) ==
  SelectSeq([i \in 1..Len(items) |-> Trim(ToStr(items[i]))],
            LAMBDA text : text # <<>>)

\* C16: normalizeBullets of a list returns its elements in order, each
\* trimmed and the empty ones dropped; of a string that parses as a JSON
\* array the result for that array; of null or the empty string the empty
\* list.
C16_ListsKeptInOrder ==
  \A r \in Runs :
    Normalized(r) =>
      LET v == run[r].arg
          out == run[r].response.value
      IN  /\ v.t = "array" => out = Kept(v.items)
          /\ (v.t = "string" /\ ParsesAsArray(Trim(v.s))) =>
               /\ out = normalizeBullets(JSONParse(Trim(v.s)).value)
               /\ out = Kept(JSONParse(Trim(v.s)).value.items)
          /\ (v = JsNull \/ v = JsStr(<<>>)) => out = <<>>

C16_Witness ==
  \E r \in Runs :
    /\ Normalized(r)
    /\ run[r].arg.t = "string"
    /\ ParsesAsArray(Trim(run[r].arg.s))
    /\ Len(JSONParse(Trim(run[r].arg.s)).value.items) = 2
    /\ run[r].response.value = <<<<"B">>>>

\* the stored value of a column of the Entity's row in a 1:1 table, null when
\* the Entity has no row there
StoredField(dbv, table, id, column) ==
  IF RowsOf(dbv[table], id) = <<>> THEN Null
  ELSE RowsOf(dbv[table], id)[1][column]

\* C17: whichever shape the storage layer returns a nested 1:1 relation in
\* (one object, a one-element list, an empty list or nothing), every card of
\* the listing carries the Entity's stored summary and facet values, and
\* unset fields where the Entity has no row.
C17_CardsCarryStoredFields ==
  \A r \in Runs :
    IsListing(r) =>
      \A i \in 1..Len(run[r].response.rows) :
        LET card == run[r].response.rows[i]
        IN  /\ card.hitokotoSummary =
                 StoredField(run[r].pre, "video_core_summary", card.id,
                             "hitokoto_summary")
            /\ card.productValueFocus =
                 StoredField(run[r].pre, "video_structure_core", card.id,
                             "product_value_focus")
            /\ card.visualMainCharacter =
                 StoredField(run[r].pre, "video_structure_core", card.id,
                             "visual_main_character")
            /\ card.emotionalTone =
                 StoredField(run[r].pre, "video_structure_core", card.id,
                             "emotional_tone")

IsDetail(r) ==
  /\ run[r].pc = "done"
  /\ run[r].handler = "VideoDetailPage"
  /\ run[r].response.kind = "detail"

\* the view's fields of each 1:1 relation with the columns they come from
ViewFields ==
  { <<"hitokoto", "video_core_summary", "hitokoto_summary">>,
    <<"pvf", "video_structure_core", "product_value_focus">>,
    <<"vmc", "video_structure_core", "visual_main_character">>,
    <<"tone", "video_structure_core", "emotional_tone">>,
    <<"pvfNote", "video_structure_detail", "product_value_focus_detail">>,
    <<"vmcNote", "video_structure_detail", "visual_main_character_detail">>,
    <<"toneNote", "video_structure_detail", "emotional_tone_detail">>,
    <<"appealMethod", "video_structure_detail", "appeal_method">>,
    <<"appealMethodNote", "video_structure_detail", "appeal_method_detail">> }

\* C18: in the detail read path a nested Summary, FacetTriple or Detail
\* relation, whether it arrives as one object or as a list, gives the view
\* the fields of its first row, and a missing row gives null in every field
\* of that relation.
C18_DetailReadsFirstRow ==
  \A r \in Runs :
    IsDetail(r) =>
      \A f \in ViewFields :
        run[r].response.value[f[1]] =
          StoredField(run[r].pre, f[2], run[r].video_id, f[3])

C18_Witness ==
  \E r \in Runs :
    /\ IsDetail(r)
    /\ RowsOf(run[r].pre.video_core_summary, run[r].video_id) = <<>>
    /\ run[r].response.value.hitokoto = Null
    /\ run[r].response.value.pvf = TxtA
    /\ run[r].response.value.pvfNote = <<"B", "d">>
    /\ run[r].response.value.appealMethodNote = <<"B", "n">>

Extracted(r) == run[r].pc = "done" /\ run[r].handler = "extractYouTubeId"

\* exactly 11 characters of [A-Za-z0-9_-]
Canonical(id) ==
  /\ Len(id) = 11
  /\ \A i \in 1..Len(id) : id[i] \in Lower \cup Upper \cup Digit \cup {"_", "-"}

\* the segment that follows the first "shorts" or "embed" segment of a path
AfterPrefix(path) ==
  { path[i + 1] : i \in { j \in 1..(Len(path) - 1) :
                            /\ path[j] \in {<<"shorts">>, <<"embed">>}
                            /\ \A k \in 1..(j - 1) :
                                 path[k] \notin {<<"shorts">>, <<"embed">>} } }

\* what an input offers as identifier: its trimmed text, the first path
\* segment of a short link, the v parameter, the segment after /shorts/ or
\* /embed/
Candidates(input) ==
  {Trim(input.s)}
  \cup (IF input.url.ok
        THEN {input.url.path[i] : i \in {1} \cap DOMAIN input.url.path}
             \cup ({input.url.v} \ {Null}) \cup AfterPrefix(input.url.path)
        ELSE {})

\* C19: extractYouTubeId returns null or a string of exactly 11 characters
\* of [A-Za-z0-9_-] that the input carries as a whole; an input whose
\* candidates all have another shape gives null.
C19_ExtractedIdIsCanonical ==
  \A r \in Runs :
    Extracted(r) =>
      LET input == run[r].form.youtube_url
          out == run[r].response.value
      IN  /\ out # Null => (Canonical(out) /\ out \in Candidates(input))
          /\ (\A c \in Candidates(input) : ~Canonical(c)) => out = Null

C19_Witness ==
  \E r \in Runs :
    /\ Extracted(r)
    /\ run[r].form.youtube_url.url.ok
    /\ run[r].form.youtube_url.url.v = IdLong
    /\ run[r].form.youtube_url.url.hostname = <<"www">> \o YouTubeCom
    /\ run[r].response.value = Null

\* the host without a leading www
BareHost(hostname) ==
  IF Len(hostname) > 1 /\ hostname[1] = "www"
  THEN SubSeq(hostname, 2, Len(hostname)) ELSE hostname

\* the identifier X an input of an accepted form carries: X itself, a
\* youtu.be link to X, a youtube.com link with v=X, a URL whose path holds
\* /shorts/X or /embed/X; the empty set for an input of no accepted form
Accepted(input) ==
  { x \in {Trim(input.s)} : Canonical(x) }
  \cup (IF ~input.url.ok THEN {}
        ELSE { x \in {input.url.path[i] : i \in {1} \cap DOMAIN input.url.path} :
                 Canonical(x) /\ BareHost(input.url.hostname) = <<"youtu", "be">> }
             \cup { x \in {input.url.v} :
                      /\ x # Null
                      /\ Canonical(x)
                      /\ Len(input.url.hostname) >= 2
                      /\ SubSeq(input.url.hostname, Len(input.url.hostname) - 1,
                                Len(input.url.hostname)) = YouTubeCom }
             \cup { input.url.path[i + 1] :
                      i \in { j \in 1..(Len(input.url.path) - 1) :
                                /\ input.url.path[j] \in {<<"shorts">>, <<"embed">>}
                                /\ Canonical(input.url.path[j + 1]) } })

\* C20: for an input of an accepted form carrying the valid identifier X
\* extractYouTubeId returns X, and for an input of none of the accepted
\* forms it returns not-found.
C20_AcceptedFormsOnly ==
  \A r \in Runs :
    Extracted(r) =>
      LET input == run[r].form.youtube_url
          out == run[r].response.value
      IN  IF Accepted(input) = {} THEN out = Null ELSE out \in Accepted(input)

\* no part of the input has the canonical shape
NoIdentifier(input) == \A c \in Candidates(input) : ~Canonical(c)

\* C21: when no valid identifier can be derived from the submitted
\* youtube_url, the bulk submission ends with the identifier error before
\* the required-field validation and before any storage call; no table
\* changes.
C21_MalformedInputAborts ==
  \A r \in Runs :
    (/\ IsSaveAll(r)
     /\ NoIdentifier(run[r].form.youtube_url)
     /\ run[r].response # ToLogin) =>
      /\ run[r].pc = "done"
      /\ run[r].response = Err("youtube_id")
      /\ run[r].calls = <<>>
      /\ db = run[r].pre

C21_Witness ==
  \E r \in Runs :
    /\ IsSaveAll(r)
    /\ NoIdentifier(run[r].form.youtube_url)
    /\ MissingRequired(run[r].form)
    /\ run[r].response = Err("youtube_id")
    /\ Len(db.videos) > 0

\* C22: a storage error of a read (the option catalog query, the listing
\* query, on the public page and on the admin page) reaches the caller in
\* the response, and no option set or listing is presented in its place.
C22_ReadErrorsSurfaced ==
  \A r \in Runs :
    (run[r].pc = "done" /\ run[r].handler \in {"Home", "AdminPage"}) =>
      \A i \in 1..Len(run[r].calls) :
        ~run[r].calls[i].ok =>
          IF run[r].calls[i].table = "videos"
          THEN /\ run[r].response.kind = "listing_error"
                    \/ run[r].response.err = "videos"
               /\ run[r].response.rows = <<>>
          ELSE \/ run[r].response.kind = "listing_error"
               \/ run[r].response.optErr

Blank(s) == \A i \in 1..Len(s) : s[i] \in Whitespace

\* the text between the first and the last character that is not whitespace
Stripped(s) ==
  LET solid == { i \in 1..Len(s) : s[i] \notin Whitespace }
  IN  IF solid = {} THEN <<>>
      ELSE SubSeq(s, CHOOSE i \in solid : \A j \in solid : i <= j,
                     CHOOSE i \in solid : \A j \in solid : j <= i)

FacetWriters == {"saveAllAction", "createStructureCoreAction"}

WroteFacets(r) ==
  /\ run[r].pc = "done"
  /\ run[r].handler \in FacetWriters
  /\ ~Simulates(run[r].form, "structure_core")
  /\ \E i \in 1..Len(run[r].calls) :
       run[r].calls[i] = Call("video_structure_core", TRUE)

FacetOwner(r) == IF IsSaveAll(r) THEN run[r].video_id ELSE run[r].form.video_id

\* C23: whatever saveAllAction and createStructureCoreAction have written,
\* no facet column of a video_structure_core row holds an empty or
\* whitespace-only text; a facet input that is empty or whitespace only is
\* stored as null, any other input is stored without its surrounding
\* whitespace.
C23_FacetsNullOrTrimmed ==
  /\ \A i \in 1..Len(db.video_structure_core) :
       \A k \in 1..Len(FacetColumns) :
         LET v == db.video_structure_core[i][FacetColumns[k]]
         IN  v # Null => ~Blank(v) /\ v = Stripped(v)
  /\ \A r \in Runs :
       WroteFacets(r) =>
         \E i \in 1..Len(db.video_structure_core) :
           /\ db.video_structure_core[i].video_id = FacetOwner(r)
           /\ \A k \in 1..Len(FacetColumns) :
                LET input == run[r].form[FacetColumns[k]]
                IN  db.video_structure_core[i][FacetColumns[k]] =
                      IF Blank(input) THEN Null ELSE Stripped(input)

C23_Witness ==
  \E r \in Runs :
    /\ WroteFacets(r)
    /\ \E k \in 1..Len(FacetColumns) :
         LET input == run[r].form[FacetColumns[k]]
         IN  input # <<>> /\ Blank(input)
    /\ \E k \in 1..Len(FacetColumns) :
         LET input == run[r].form[FacetColumns[k]]
         IN  ~Blank(input) /\ input # Stripped(input)

CreatedAt(dbv, id) ==
  LET i == CHOOSE i \in 1..Len(dbv.videos) : dbv.videos[i].id = id
  IN  dbv.videos[i].created_at

\* the Entities the active filters select, all of them when none is active
Matching(r) ==
  LET chosen == [k \in 1..Len(FacetKeys) |->
                   IF Active(run[r].sp, FacetKeys[k])
                   THEN Selected(run[r].pre, FacetColumns[k],
                                 Trim(run[r].sp[FacetKeys[k]][1]))
                   ELSE EntityIds(run[r].pre)]
  IN  { id \in EntityIds(run[r].pre) :
          \A k \in 1..Len(FacetKeys) : id \in chosen[k] }

\* C24: for every combination of filters the listing is in the order of
\* the Entities' creation times, newest first, and has at most 50 rows; it
\* holds all matching Entities when they are at most 50 and else the 50
\* created last.
C24_NewestFiftyListed ==
  \A r \in Runs :
    IsListing(r) =>
      LET rows == run[r].response.rows
          matching == Matching(r)
          at == [i \in 1..Len(rows) |-> CreatedAt(run[r].pre, rows[i].id)]
          n == Cardinality(matching)
      IN  /\ Len(rows) = IF n <= 50 THEN n ELSE 50
          /\ ListedIds(r) \subseteq matching
          /\ \A i, j \in 1..Len(rows) : i < j => at[i] > at[j]
          /\ \A id \in matching \ ListedIds(r) :
               \A i \in 1..Len(rows) : CreatedAt(run[r].pre, id) < at[i]

C24_Witness ==
  \E r \in Runs :
    /\ IsListing(r)
    /\ Active(run[r].sp, "pvf")
    /\ Cardinality(Matching(r)) > 50
    /\ Len(run[r].response.rows) = 50
    /\ run[r].response.rows[1].id # run[r].pre.videos[1].id

Picked(r) == run[r].pc = "done" /\ run[r].handler = "pickFirst"

\* the object has the key with a value that is not null and not an empty
\* or whitespace-only text
Qualifies(obj, k) ==
  /\ k \in DOMAIN obj
  /\ obj[k] # Null
  /\ \E i \in 1..Len(obj[k]) : obj[k][i] \notin Whitespace

\* C25: pickFirst(obj, keys) is the value, as stored, of the first key in
\* the order of keys that obj has with a value that is not null, undefined,
\* or an empty or whitespace-only text, and null when no key qualifies or
\* obj is null; the result is a function of obj and keys alone.
C25_FirstQualifyingKey ==
  \A r \in Runs :
    Picked(r) =>
      LET obj == run[r].arg.obj
          keys == run[r].arg.keys
          hits == { i \in 1..Len(keys) : Qualifies(obj, keys[i]) }
      IN  run[r].response.value =
            IF hits = {} THEN Null
            ELSE obj[keys[CHOOSE i \in hits : \A j \in hits : i <= j]]

C25_Witness ==
  \E r \in Runs :
    /\ Picked(r)
    /\ Len(run[r].arg.keys) = 2
    /\ run[r].arg.keys[1] \in DOMAIN run[r].arg.obj
    /\ run[r].arg.obj[run[r].arg.keys[1]] = TxtBlank
    /\ run[r].response.value = TxtPaddedA

NotesOf(r) == RowsOf(run[r].pre.video_observation_notes, run[r].video_id)

\* the texts of the stored Notes created at time c, in their stored order
StoredAt(r, c) ==
  LET rows == SelectSeq(NotesOf(r), LAMBDA n : n.created_at = c)
  IN  [i \in 1..Len(rows) |-> rows[i].observation_text]

\* the texts of the presented Notes created at time c, in their order
ShownAt(r, c) ==
  LET shown == SelectSeq(run[r].response.value.notes, LAMBDA n : n.key[1] = c)
  IN  [i \in 1..Len(shown) |-> shown[i].text]

\* C26: the detail page presents every Note of the Entity, oldest first,
\* whatever the order in which storage returned them.
C26_AllNotesOldestFirst ==
  \A r \in Runs :
    IsDetail(r) =>
      LET shown == run[r].response.value.notes
      IN  /\ Len(shown) = Len(NotesOf(r))
          /\ \A i, j \in 1..Len(shown) : i < j => shown[i].key[1] <= shown[j].key[1]
          /\ \A i \in 1..Len(NotesOf(r)) :
               StoredAt(r, NotesOf(r)[i].created_at) =
                 ShownAt(r, NotesOf(r)[i].created_at)

C26_Witness ==
  \E r \in Runs :
    /\ IsDetail(r)
    /\ Len(NotesOf(r)) = 2
    /\ NotesOf(r)[1].created_at > NotesOf(r)[2].created_at
    /\ run[r].response.value.notes[1].text = NotesOf(r)[2].observation_text

WriteHandlers ==
  {"saveAllAction", "createVideoAction", "createCoreSummaryAction",
   "createStructureCoreAction", "createStructureDetailAction",
   "createObservationNoteAction"}

\* ADMIN_PASSWORD is configured and the admin_auth cookie is "1"
Authenticated == env.ADMIN_PASSWORD # "" /\ cookie = "1"

Refused(r) ==
  /\ run[r].pc = "done"
  /\ run[r].response = ToLogin
  /\ run[r].calls = <<>>
  /\ db = run[r].pre

\* C27: a write action that is not authenticated (ADMIN_PASSWORD configured
\* and the admin_auth cookie "1") is sent to the login page without a
\* storage call, so the tables change only under authentication; the cookie
\* becomes "1" only in a loginAction whose password equals the configured
\* ADMIN_PASSWORD; without ADMIN_PASSWORD nothing is ever written.
C27_WritesNeedAuthentication ==
  /\ [](\A r \in Runs :
          (run[r].pc # "idle" /\ run[r].handler \in WriteHandlers
             /\ ~Authenticated) => Refused(r))
  /\ [](env.ADMIN_PASSWORD = "" => db = EmptyDb)
  /\ [][db' # db => Authenticated]_vars
  /\ [][(cookie' = "1" /\ cookie # "1") =>
          \E r \in Runs :
            /\ run[r].pc = "idle"
            /\ run'[r].handler = "loginAction"
            /\ env.ADMIN_PASSWORD # ""
            /\ run'[r].arg = env.ADMIN_PASSWORD]_vars

C27_Witness ==
  \E r \in Runs :
    /\ run[r].handler \in WriteHandlers
    /\ Refused(r)
    /\ Len(db.videos) > 0
    /\ cookie = ""
    /\ env.ADMIN_PASSWORD # ""

\* both requests are saveAllAction runs for one identifier that have ended
\* with every write accepted
BothSaved ==
  /\ Cardinality(Runs) = 2
  /\ \A r \in Runs : IsSaveAll(r) /\ run[r].response.kind = "bulk_saved"
  /\ \A r, q \in Runs : run[r].youtube_id = run[q].youtube_id

\* C28: when two saveAllAction runs for the same identifier interleave
\* their writes and every write succeeds, there is one Entity row for the
\* identifier, and its Summary, FacetTriple and Detail rows are those of one
\* and the same of the two submissions.
C28_RacingRunsDoNotMix ==
  BothSaved =>
    /\ Len(db.videos) = 1
    /\ \E r \in Runs :
         \A i \in 1..3 :
           RowsOf(db[StepTables[i]], db.videos[1].id) =
             <<ExpectedRow(i, run[r].form, db.videos[1].id)>>

\* youtu.be, youtube.com or youtube-nocookie.com, or a host under one of
\* the latter two
YouTubeHost(hostname) ==
  \/ BareHost(hostname) = <<"youtu", "be">>
  \/ /\ Len(BareHost(hostname)) >= 2
     /\ SubSeq(BareHost(hostname), Len(BareHost(hostname)) - 1,
               Len(BareHost(hostname)))
          \in {YouTubeCom, <<"youtube-nocookie", "com">>}

\* C29: for a URL whose host, without a leading www., is neither youtu.be
\* nor a YouTube host, extractYouTubeId returns not-found.
C29_ForeignHostsRejected ==
  \A r \in Runs :
    (/\ Extracted(r)
     /\ run[r].form.youtube_url.url.ok
     /\ ~YouTubeHost(run[r].form.youtube_url.url.hostname)) =>
      run[r].response.value = Null

RoundTripped(r) == run[r].pc = "done" /\ run[r].handler = "roundTrip"

\* the raw text has a character that is not whitespace
HasBullet(raw) == \E i \in 1..Len(raw) : raw[i] \notin Whitespace

\* C30: the bullets saveAllAction stores for an observation_points text
\* (null when no line has content) come back from
\* normalizeBullets(pickFirstArray(note, ...)) unchanged and in order, a
\* stored null comes back as the empty list, and normalizeBullets of the
\* bullets read gives the same list again.
C30_BulletsRoundTrip ==
  \A r \in Runs :
    RoundTripped(r) =>
      LET v == run[r].response.value
      IN  /\ v.stored.t = IF HasBullet(run[r].form.observation_points)
                          THEN "array" ELSE "null"
          /\ v.stored.t = "array" =>
               /\ Len(v.bullets) = Len(v.stored.items)
               /\ \A i \in 1..Len(v.bullets) : v.bullets[i] = v.stored.items[i].s
          /\ v.stored.t = "null" => v.bullets = <<>>
          /\ v.again = v.bullets

C30_Witness ==
  \E r \in Runs :
    /\ RoundTripped(r)
    /\ run[r].form.observation_points = <<" ", "b", "\n", "a">>
    /\ run[r].response.value.bullets = <<<<"b">>, <<"a">>>>

====
